---------------------------- MODULE Spec2Model ----------------------------
(***************************************************************************)
(* Money Tracker API (backend/main.py, backend/redis_client.py,            *)
(* backend/database.py, backend/schemas.py) as a state machine.            *)
(*                                                                         *)
(* The persistent store is the three tables of database.py; every request  *)
(* handler of main.py is one action, run as one store transaction: what a  *)
(* handler writes before its commit lives in its session and reaches the   *)
(* tables only at db.commit().  The cache store is a key/value map; each   *)
(* call to it can fail (redis.RedisError), which the request draws as an   *)
(* input.                                                                  *)
(*                                                                         *)
(* Conventions of the translation:                                         *)
(*   - amounts and balances (Python floats) are integers;                  *)
(*   - a string is a sequence of tokens, the glyphs U+2192 and U+2190      *)
(*     being the tokens "->" and "<-";                                     *)
(*   - None for an identifier is 0 (identifiers start at 1; the code tests *)
(*     them by truthiness or looks them up, and both treat 0 as None);     *)
(*   - None for a category type is the empty string (the code tests the    *)
(*     type by truthiness only);                                           *)
(*   - an Optional field of a request body is <<>> (absent) or <<v>>.      *)
(***************************************************************************)
EXTENDS Integers, Sequences, FiniteSets, TLC

VARIABLES
    accounts,      \* table accounts: id (the index) -> row
    categories,    \* table categories: id (the index) -> row
    transactions,  \* table transactions: the set of rows, each with its id
    nextTxnId,     \* the next value of the transactions id sequence
    cache,         \* the cache store: key -> entry
    resp,          \* the response to the last request
    probe          \* observer of a scenario: no handler reads or writes it

dbVars == <<accounts, categories, transactions, nextTxnId>>
vars == <<accounts, categories, transactions, nextTxnId, cache, resp, probe>>

---------------------------------------------------------------------------
(* Bounds of the model *)

TransferMaxTxnId == 2
TransferMaxBalance == 3
RoundTripMaxTxnId == 2
RoundTripMaxBalance == 3
UndoMaxTxnId == 2
UndoMaxBalance == 4
StaleMaxTxnId == 2
StaleMaxBalance == 3

---------------------------------------------------------------------------
(* Values *)

Arrow == "->"
BackArrow == "<-"

CACHE_CATEGORIES_ALL == "categories:all"
CACHE_CATEGORIES_TREE == "categories:tree"
CACHE_ACCOUNTS_ALL == "accounts:all"
CacheKeys == {CACHE_CATEGORIES_ALL, CACHE_CATEGORIES_TREE, CACHE_ACCOUNTS_ALL}

None == ""

Some(v) == <<v>>
Absent == <<>>

Abs(x) == IF x < 0 THEN -x ELSE x

Contains(s, token) == \E i \in 1..Len(s) : s[i] = token

AccountIds == 1..Len(accounts)
CategoryIds == 1..Len(categories)
TxnIds == {t.id : t \in transactions}
Txn(id) == CHOOSE t \in transactions : t.id = id

Reply(op, status, detail, body) ==
    [op |-> op, status |-> status, detail |-> detail, body |-> body]

---------------------------------------------------------------------------
(* redis_client.py: cache helpers.  ok is whether the call reaches the     *)
(* store; a failed call raises redis.RedisError inside the helper, which   *)
(* the helper swallows.                                                    *)

Miss == [present |-> FALSE, data |-> <<>>]

json_dumps(value) == <<"json", value>>
json_loads(data) == data[2]

cache_get(store, key, ok) ==
    IF ok /\ store[key].present
    THEN [present |-> TRUE, data |-> json_loads(store[key].data)]
    ELSE Miss

\* cache_set that never writes.
cache_set_Dropped(store, key, value, ok) == store

cache_set(store, key, value, ok) ==
    IF ok
    THEN [store EXCEPT ![key] = [present |-> TRUE, data |-> json_dumps(value)]]
    ELSE store

cache_delete(store, key, ok) ==
    IF ok THEN [store EXCEPT ![key] = Miss] ELSE store

invalidate_categories_cache(store, ok1, ok2) ==
    cache_delete(cache_delete(store, CACHE_CATEGORIES_ALL, ok1),
                 CACHE_CATEGORIES_TREE, ok2)

invalidate_accounts_cache(store, ok) ==
    cache_delete(store, CACHE_ACCOUNTS_ALL, ok)

---------------------------------------------------------------------------
(* main.py: helpers *)

\* get_category_type that does not look at the parent.
get_category_type_OwnOnly(category) ==
    IF category.type # None THEN category.type ELSE "expense"

get_category_type(category) ==
    IF category.type # None
    THEN category.type
    ELSE IF category.parent_id \in CategoryIds
         THEN IF categories[category.parent_id].type # None
              THEN categories[category.parent_id].type
              ELSE "expense"
         ELSE "expense"

\* LimitCheck testing the balance before the debit instead of after it.
LimitCheck_OldBalance(account, new_balance) ==
    IF account.account_type = "credit"
    THEN IF Abs(account.balance) > account.credit_limit
         THEN "Credit limit exceeded"
         ELSE "ok"
    ELSE IF account.balance < 0
         THEN "Insufficient funds"
         ELSE "ok"

\* LimitCheck that lets a credit account go any distance from zero.
LimitCheck_CreditUnchecked(account, new_balance) ==
    IF account.account_type = "credit"
    THEN "ok"
    ELSE IF new_balance < 0
         THEN "Insufficient funds"
         ELSE "ok"

\* The limit test the three balance-mutating handlers apply to a debit.
LimitCheck(account, new_balance) ==
    IF account.account_type = "credit"
    THEN IF Abs(new_balance) > account.credit_limit
         THEN "Credit limit exceeded"
         ELSE "ok"
    ELSE IF new_balance < 0
         THEN "Insufficient funds"
         ELSE "ok"

---------------------------------------------------------------------------
Init ==
    /\ accounts = <<>>
    /\ categories = <<>>
    /\ transactions = {}
    /\ nextTxnId = 1
    /\ cache = [k \in CacheKeys |-> Miss]
    /\ resp = Reply("none", 0, "", <<>>)
    /\ probe = [phase |-> "idle", reached |-> FALSE, again |-> FALSE,
                since |-> [k \in CacheKeys |-> "none"]]

---------------------------------------------------------------------------
(* Accounts *)

NameTaken(name, except) ==
    \E i \in AccountIds : i # except /\ accounts[i].name = name

\* create_account that checks the credit limit after the row is stored.
create_account_ChecksAfterInsert(name, balance, account_type, credit_limit, delOk) ==
    /\ UNCHANGED <<categories, transactions, nextTxnId>>
    /\ IF account_type \notin {"cash", "debit", "credit"}
       THEN /\ resp' = Reply("create_account", 400, "Account type", <<>>)
            /\ UNCHANGED <<accounts, cache>>
       ELSE IF NameTaken(name, 0)
       THEN /\ resp' = Reply("create_account", 500, "IntegrityError", <<>>)
            /\ UNCHANGED <<accounts, cache>>
       ELSE /\ accounts' = Append(accounts,
                   [name |-> name, balance |-> balance,
                    account_type |-> account_type,
                    credit_limit |-> credit_limit])
            /\ cache' = invalidate_accounts_cache(cache, delOk)
            /\ resp' = IF account_type = "credit" /\ credit_limit <= 0
                       THEN Reply("create_account", 400, "Credit limit", <<>>)
                       ELSE Reply("create_account", 200, "", <<>>)

create_account(name, balance, account_type, credit_limit, delOk) ==
    /\ UNCHANGED <<categories, transactions, nextTxnId>>
    /\ IF account_type \notin {"cash", "debit", "credit"}
       THEN /\ resp' = Reply("create_account", 400, "Account type", <<>>)
            /\ UNCHANGED <<accounts, cache>>
       ELSE IF account_type = "credit" /\ credit_limit <= 0
       THEN /\ resp' = Reply("create_account", 400, "Credit limit", <<>>)
            /\ UNCHANGED <<accounts, cache>>
       ELSE IF NameTaken(name, 0)
       THEN \* unique constraint on accounts.name: db.commit() raises
            /\ resp' = Reply("create_account", 500, "IntegrityError", <<>>)
            /\ UNCHANGED <<accounts, cache>>
       ELSE /\ accounts' = Append(accounts,
                   [name |-> name, balance |-> balance,
                    account_type |-> account_type,
                    credit_limit |-> credit_limit])
            /\ cache' = invalidate_accounts_cache(cache, delOk)
            /\ resp' = Reply("create_account", 200, "", <<>>)

\* update_account that leaves the balance as it is.
update_account_KeepsBalance(account_id, name, balance, account_type, credit_limit, delOk) ==
    /\ UNCHANGED <<categories, transactions, nextTxnId>>
    /\ IF account_id \notin AccountIds
       THEN /\ resp' = Reply("update_account", 404, "Account not found", <<>>)
            /\ UNCHANGED <<accounts, cache>>
       ELSE IF account_type \notin {"cash", "debit", "credit"}
       THEN /\ resp' = Reply("update_account", 400, "Account type", <<>>)
            /\ UNCHANGED <<accounts, cache>>
       ELSE IF NameTaken(name, account_id)
       THEN /\ resp' = Reply("update_account", 500, "IntegrityError", <<>>)
            /\ UNCHANGED <<accounts, cache>>
       ELSE /\ accounts' = [accounts EXCEPT ![account_id] =
                   [name |-> name, balance |-> @.balance,
                    account_type |-> account_type,
                    credit_limit |-> credit_limit]]
            /\ cache' = invalidate_accounts_cache(cache, delOk)
            /\ resp' = Reply("update_account", 200, "", <<>>)

update_account(account_id, name, balance, account_type, credit_limit, delOk) ==
    /\ UNCHANGED <<categories, transactions, nextTxnId>>
    /\ IF account_id \notin AccountIds
       THEN /\ resp' = Reply("update_account", 404, "Account not found", <<>>)
            /\ UNCHANGED <<accounts, cache>>
       ELSE IF account_type \notin {"cash", "debit", "credit"}
       THEN /\ resp' = Reply("update_account", 400, "Account type", <<>>)
            /\ UNCHANGED <<accounts, cache>>
       ELSE IF NameTaken(name, account_id)
       THEN /\ resp' = Reply("update_account", 500, "IntegrityError", <<>>)
            /\ UNCHANGED <<accounts, cache>>
       ELSE /\ accounts' = [accounts EXCEPT ![account_id] =
                   [name |-> name, balance |-> balance,
                    account_type |-> account_type,
                    credit_limit |-> credit_limit]]
            /\ cache' = invalidate_accounts_cache(cache, delOk)
            /\ resp' = Reply("update_account", 200, "", <<>>)

AccountsOut(accs) ==
    [i \in 1..Len(accs) |->
        [id |-> i, name |-> accs[i].name, balance |-> accs[i].balance,
         account_type |-> accs[i].account_type,
         credit_limit |-> accs[i].credit_limit]]

read_accounts(getOk, setOk) ==
    /\ UNCHANGED dbVars
    /\ LET cached == cache_get(cache, CACHE_ACCOUNTS_ALL, getOk) IN
       IF cached.present
       THEN /\ resp' = Reply("read_accounts", 200, "hit", cached.data)
            /\ UNCHANGED cache
       ELSE /\ cache' = cache_set(cache, CACHE_ACCOUNTS_ALL,
                                  AccountsOut(accounts), setOk)
            /\ resp' = Reply("read_accounts", 200, "miss", AccountsOut(accounts))

---------------------------------------------------------------------------
(* Categories *)

\* create_category without the test of the parent's parent.
create_category_AnyDepth(name, type, parent_id, delOk1, delOk2) ==
    /\ UNCHANGED <<accounts, transactions, nextTxnId>>
    /\ IF parent_id # 0 /\ parent_id \notin CategoryIds
       THEN /\ resp' = Reply("create_category", 404, "Parent category not found", <<>>)
            /\ UNCHANGED <<categories, cache>>
       ELSE /\ categories' = Append(categories,
                   [name |-> name,
                    type |-> IF parent_id # 0 THEN None ELSE type,
                    parent_id |-> parent_id])
            /\ cache' = invalidate_categories_cache(cache, delOk1, delOk2)
            /\ resp' = Reply("create_category", 200, "", <<>>)

create_category(name, type, parent_id, delOk1, delOk2) ==
    /\ UNCHANGED <<accounts, transactions, nextTxnId>>
    /\ IF parent_id # 0 /\ parent_id \notin CategoryIds
       THEN /\ resp' = Reply("create_category", 404, "Parent category not found", <<>>)
            /\ UNCHANGED <<categories, cache>>
       ELSE IF parent_id # 0 /\ categories[parent_id].parent_id # 0
       THEN /\ resp' = Reply("create_category", 400, "1 level deep", <<>>)
            /\ UNCHANGED <<categories, cache>>
       ELSE /\ categories' = Append(categories,
                   [name |-> name,
                    type |-> IF parent_id # 0 THEN None ELSE type,
                    parent_id |-> parent_id])
            /\ cache' = invalidate_categories_cache(cache, delOk1, delOk2)
            /\ resp' = Reply("create_category", 200, "", <<>>)

\* update_category that applies the type of the request to any category.
update_category_AnyType(category_id, name, type, delOk1, delOk2) ==
    /\ UNCHANGED <<accounts, transactions, nextTxnId>>
    /\ IF category_id \notin CategoryIds
       THEN /\ resp' = Reply("update_category", 404, "Category not found", <<>>)
            /\ UNCHANGED <<categories, cache>>
       ELSE /\ categories' = [categories EXCEPT ![category_id] =
                   [name |-> name, type |-> type, parent_id |-> @.parent_id]]
            /\ cache' = invalidate_categories_cache(cache, delOk1, delOk2)
            /\ resp' = Reply("update_category", 200, "", <<>>)

\* update_category that invalidates the cache before it looks the row up.
update_category_InvalidatesFirst(category_id, name, type, delOk1, delOk2) ==
    /\ UNCHANGED <<accounts, transactions, nextTxnId>>
    /\ cache' = invalidate_categories_cache(cache, delOk1, delOk2)
    /\ IF category_id \notin CategoryIds
       THEN /\ resp' = Reply("update_category", 404, "Category not found", <<>>)
            /\ UNCHANGED categories
       ELSE /\ categories' = [categories EXCEPT ![category_id] =
                   [name |-> name,
                    type |-> IF @.parent_id = 0 THEN type ELSE @.type,
                    parent_id |-> @.parent_id]]
            /\ resp' = Reply("update_category", 200, "", <<>>)

update_category(category_id, name, type, delOk1, delOk2) ==
    /\ UNCHANGED <<accounts, transactions, nextTxnId>>
    /\ IF category_id \notin CategoryIds
       THEN /\ resp' = Reply("update_category", 404, "Category not found", <<>>)
            /\ UNCHANGED <<categories, cache>>
       ELSE /\ categories' = [categories EXCEPT ![category_id] =
                   [name |-> name,
                    type |-> IF @.parent_id = 0 THEN type ELSE @.type,
                    parent_id |-> @.parent_id]]
            /\ cache' = invalidate_categories_cache(cache, delOk1, delOk2)
            /\ resp' = Reply("update_category", 200, "", <<>>)

CategoryOut(cats, i) ==
    [id |-> i, name |-> cats[i].name, type |-> cats[i].type,
     parent_id |-> cats[i].parent_id]

CategoriesOut(cats) == [i \in 1..Len(cats) |-> CategoryOut(cats, i)]

\* The identifiers of S in increasing order.
RECURSIVE SortedIds(_)
SortedIds(S) ==
    IF S = {} THEN <<>>
    ELSE LET m == CHOOSE x \in S : \A y \in S : x <= y
         IN <<m>> \o SortedIds(S \ {m})

ChildrenOut(cats, i) ==
    LET kids == SortedIds({j \in 1..Len(cats) : cats[j].parent_id = i})
    IN [k \in 1..Len(kids) |-> CategoryOut(cats, kids[k])]

TreeOut(cats) ==
    LET roots == SortedIds({i \in 1..Len(cats) : cats[i].parent_id = 0})
    IN [k \in 1..Len(roots) |->
           [id |-> roots[k], name |-> cats[roots[k]].name,
            type |-> cats[roots[k]].type,
            parent_id |-> cats[roots[k]].parent_id,
            children |-> ChildrenOut(cats, roots[k])]]

read_categories(getOk, setOk) ==
    /\ UNCHANGED dbVars
    /\ LET cached == cache_get(cache, CACHE_CATEGORIES_ALL, getOk) IN
       IF cached.present
       THEN /\ resp' = Reply("read_categories", 200, "hit", cached.data)
            /\ UNCHANGED cache
       ELSE /\ cache' = cache_set(cache, CACHE_CATEGORIES_ALL,
                                  CategoriesOut(categories), setOk)
            /\ resp' = Reply("read_categories", 200, "miss",
                             CategoriesOut(categories))

read_categories_tree(getOk, setOk) ==
    /\ UNCHANGED dbVars
    /\ LET cached == cache_get(cache, CACHE_CATEGORIES_TREE, getOk) IN
       IF cached.present
       THEN /\ resp' = Reply("read_categories_tree", 200, "hit", cached.data)
            /\ UNCHANGED cache
       ELSE /\ cache' = cache_set(cache, CACHE_CATEGORIES_TREE,
                                  TreeOut(categories), setOk)
            /\ resp' = Reply("read_categories_tree", 200, "miss",
                             TreeOut(categories))

\* The cache store drops an entry whose time to live (CACHE_TTL) has run out.
expire_key(key) ==
    /\ cache[key].present
    /\ cache' = [cache EXCEPT ![key] = Miss]
    /\ UNCHANGED <<dbVars, resp>>

---------------------------------------------------------------------------
(* Transactions *)

AddBalance(accs, account_id, delta) ==
    [accs EXCEPT ![account_id].balance = @ + delta]

\* Reverse leaving the old effect in place.
Reverse_None(accs, account_id, cat_type, amount) == accs

\* Undo of a transaction's effect, as update and delete compute it.
Reverse(accs, account_id, cat_type, amount) ==
    IF cat_type = "expense" THEN AddBalance(accs, account_id, amount)
    ELSE IF cat_type = "income" THEN AddBalance(accs, account_id, -amount)
    ELSE accs

\* The type update and delete give the category of an existing row.
RowType(category_id) ==
    IF category_id \in CategoryIds
    THEN get_category_type(categories[category_id])
    ELSE "expense"

create_transaction(amount, description, account_id, category_id, created_at) ==
    /\ UNCHANGED <<categories, cache>>
    /\ IF account_id \notin AccountIds \/ category_id \notin CategoryIds
       THEN /\ resp' = Reply("create_transaction", 404,
                             "Account or Category not found", <<>>)
            /\ UNCHANGED <<accounts, transactions, nextTxnId>>
       ELSE LET account == accounts[account_id]
                cat_type == get_category_type(categories[category_id])
                new_balance == account.balance - amount
                check == IF cat_type = "expense"
                         THEN LimitCheck(account, new_balance) ELSE "ok"
            IN IF check # "ok"
               THEN /\ resp' = Reply("create_transaction", 400, check, <<>>)
                    /\ UNCHANGED <<accounts, transactions, nextTxnId>>
               ELSE /\ accounts' =
                         IF cat_type = "expense"
                         THEN [accounts EXCEPT ![account_id].balance = new_balance]
                         ELSE IF cat_type = "income"
                         THEN AddBalance(accounts, account_id, amount)
                         ELSE accounts
                    /\ transactions' = transactions \cup
                         {[id |-> nextTxnId, amount |-> amount,
                           description |-> description,
                           created_at |-> created_at,
                           account_id |-> account_id,
                           category_id |-> category_id,
                           is_transfer |-> FALSE, transfer_pair_id |-> 0]}
                    /\ nextTxnId' = nextTxnId + 1
                    /\ resp' = Reply("create_transaction", 200, "", <<>>)

Merge(old, opt) == IF Len(opt) = 0 THEN old ELSE opt[1]

\* The merged row when the request's account is ignored.
Patched_KeepsAccount(txn, update) ==
    [txn EXCEPT !.amount = Merge(@, update.amount),
                !.description = Merge(@, update.description),
                !.created_at = Merge(@, update.created_at),
                !.category_id = Merge(@, update.category_id)]

\* The row of update_transaction after the fields of the request are merged.
Patched(txn, update) ==
    [txn EXCEPT !.amount = Merge(@, update.amount),
                !.description = Merge(@, update.description),
                !.created_at = Merge(@, update.created_at),
                !.account_id = Merge(@, update.account_id),
                !.category_id = Merge(@, update.category_id)]

\* update_transaction that leaves the reversal in place when it refuses.
update_transaction_NoRollback(transaction_id, update) ==
    /\ UNCHANGED <<categories, nextTxnId, cache>>
    /\ IF transaction_id \notin TxnIds
       THEN /\ resp' = Reply("update_transaction", 404,
                             "Transaction not found", <<>>)
            /\ UNCHANGED <<accounts, transactions>>
       ELSE LET txn == Txn(transaction_id)
                reversed == Reverse(accounts, txn.account_id,
                                    RowType(txn.category_id), txn.amount)
                new == Patched(txn, update)
            IN IF new.account_id \notin AccountIds
                  \/ new.category_id \notin CategoryIds
               THEN /\ resp' = Reply("update_transaction", 404,
                                     "Account or Category not found", <<>>)
                    /\ accounts' = reversed
                    /\ UNCHANGED transactions
               ELSE LET new_account == reversed[new.account_id]
                        new_type == get_category_type(categories[new.category_id])
                        new_balance == new_account.balance - new.amount
                        check == IF new_type = "expense"
                                 THEN LimitCheck(new_account, new_balance)
                                 ELSE "ok"
                    IN IF check # "ok"
                       THEN /\ resp' = Reply("update_transaction", 400, check, <<>>)
                            /\ accounts' = reversed
                            /\ UNCHANGED transactions
                       ELSE /\ accounts' =
                                 IF new_type = "expense"
                                 THEN [reversed EXCEPT
                                          ![new.account_id].balance = new_balance]
                                 ELSE IF new_type = "income"
                                 THEN AddBalance(reversed, new.account_id, new.amount)
                                 ELSE reversed
                            /\ transactions' = (transactions \ {txn}) \cup {new}
                            /\ resp' = Reply("update_transaction", 200, "", <<>>)

update_transaction(transaction_id, update) ==
    /\ UNCHANGED <<categories, nextTxnId, cache>>
    /\ IF transaction_id \notin TxnIds
       THEN /\ resp' = Reply("update_transaction", 404,
                             "Transaction not found", <<>>)
            /\ UNCHANGED <<accounts, transactions>>
       ELSE LET txn == Txn(transaction_id)
                reversed == Reverse(accounts, txn.account_id,
                                    RowType(txn.category_id), txn.amount)
                new == Patched(txn, update)
            IN IF new.account_id \notin AccountIds
                  \/ new.category_id \notin CategoryIds
               THEN \* db.rollback()
                    /\ resp' = Reply("update_transaction", 404,
                                     "Account or Category not found", <<>>)
                    /\ UNCHANGED <<accounts, transactions>>
               ELSE LET new_account == reversed[new.account_id]
                        new_type == get_category_type(categories[new.category_id])
                        new_balance == new_account.balance - new.amount
                        check == IF new_type = "expense"
                                 THEN LimitCheck(new_account, new_balance)
                                 ELSE "ok"
                    IN IF check # "ok"
                       THEN \* db.rollback()
                            /\ resp' = Reply("update_transaction", 400, check, <<>>)
                            /\ UNCHANGED <<accounts, transactions>>
                       ELSE /\ accounts' =
                                 IF new_type = "expense"
                                 THEN [reversed EXCEPT
                                          ![new.account_id].balance = new_balance]
                                 ELSE IF new_type = "income"
                                 THEN AddBalance(reversed, new.account_id, new.amount)
                                 ELSE reversed
                            /\ transactions' = (transactions \ {txn}) \cup {new}
                            /\ resp' = Reply("update_transaction", 200, "", <<>>)

\* delete_transaction's test for the outgoing leg of a transfer.
IsOutgoing(description) == Contains(description, Arrow)

\* The undo of a transfer that gives the amount back and takes nothing.
UndoTransfer_CreditOnly(accs, txn) ==
    LET hasPair == txn.transfer_pair_id \in TxnIds
        pair == Txn(txn.transfer_pair_id)
        from_id == IF IsOutgoing(txn.description) THEN txn.account_id
                   ELSE IF hasPair THEN pair.account_id ELSE 0
    IN IF from_id # 0 THEN AddBalance(accs, from_id, txn.amount) ELSE accs

\* The balances after delete_transaction undoes a transfer through leg txn.
UndoTransfer(accs, txn) ==
    LET hasPair == txn.transfer_pair_id \in TxnIds
        pair == Txn(txn.transfer_pair_id)
        from_id == IF IsOutgoing(txn.description) THEN txn.account_id
                   ELSE IF hasPair THEN pair.account_id ELSE 0
        to_id == IF IsOutgoing(txn.description)
                 THEN IF hasPair THEN pair.account_id ELSE 0
                 ELSE txn.account_id
        credited == IF from_id # 0 THEN AddBalance(accs, from_id, txn.amount)
                    ELSE accs
    IN IF to_id # 0 THEN AddBalance(credited, to_id, -txn.amount) ELSE credited

\* delete_transaction that answers 200 for an identifier without a row.
delete_transaction_Idempotent(transaction_id) ==
    /\ UNCHANGED <<categories, nextTxnId, cache>>
    /\ IF transaction_id \notin TxnIds
       THEN /\ resp' = Reply("delete_transaction", 200, "", <<>>)
            /\ UNCHANGED <<accounts, transactions>>
       ELSE LET txn == Txn(transaction_id) IN
            /\ IF txn.is_transfer
               THEN /\ accounts' = UndoTransfer(accounts, txn)
                    /\ transactions' =
                         {t \in transactions :
                             t.id # txn.id /\ t.id # txn.transfer_pair_id}
               ELSE /\ accounts' = Reverse(accounts, txn.account_id,
                                           RowType(txn.category_id), txn.amount)
                    /\ transactions' = transactions \ {txn}
            /\ resp' = Reply("delete_transaction", 200, "", <<>>)

delete_transaction(transaction_id) ==
    /\ UNCHANGED <<categories, nextTxnId, cache>>
    /\ IF transaction_id \notin TxnIds
       THEN /\ resp' = Reply("delete_transaction", 404,
                             "Transaction not found", <<>>)
            /\ UNCHANGED <<accounts, transactions>>
       ELSE LET txn == Txn(transaction_id) IN
            /\ IF txn.is_transfer
               THEN /\ accounts' = UndoTransfer(accounts, txn)
                    /\ transactions' =
                         {t \in transactions :
                             t.id # txn.id /\ t.id # txn.transfer_pair_id}
               ELSE /\ accounts' = Reverse(accounts, txn.account_id,
                                           RowType(txn.category_id), txn.amount)
                    /\ transactions' = transactions \ {txn}
            /\ resp' = Reply("delete_transaction", 200, "", <<>>)

---------------------------------------------------------------------------
(* Transfers.  The handler's session after each of its steps; fail names    *)
(* the step after which an exception is raised ("none": no exception),      *)
(* which the handler answers with db.rollback() and a 500.                  *)

TransferOut(name) == <<"Transfer", Arrow>> \o name
TransferIn(name) == <<"Transfer", BackArrow>> \o name

Session == [accounts |-> accounts, transactions |-> transactions,
            nextTxnId |-> nextTxnId]

TransferMove(s, from_id, to_id, amount) ==
    [s EXCEPT !.accounts =
        AddBalance([s.accounts EXCEPT ![from_id].balance =
                        s.accounts[from_id].balance - amount],
                   to_id, amount)]

TransferFlushOut(s, from_id, to_id, amount, now) ==
    [s EXCEPT !.transactions = @ \cup
                 {[id |-> s.nextTxnId, amount |-> amount,
                   description |-> TransferOut(accounts[to_id].name),
                   created_at |-> now, account_id |-> from_id,
                   category_id |-> 0, is_transfer |-> TRUE,
                   transfer_pair_id |-> 0]},
              !.nextTxnId = @ + 1]

\* TransferFlushIn leaving the second row's pair reference unset.
TransferFlushIn_NoPair(s, from_id, to_id, amount, now, out_id) ==
    [s EXCEPT !.transactions = @ \cup
                 {[id |-> s.nextTxnId, amount |-> amount,
                   description |-> TransferIn(accounts[from_id].name),
                   created_at |-> now, account_id |-> to_id,
                   category_id |-> 0, is_transfer |-> TRUE,
                   transfer_pair_id |-> 0]},
              !.nextTxnId = @ + 1]

TransferFlushIn(s, from_id, to_id, amount, now, out_id) ==
    [s EXCEPT !.transactions = @ \cup
                 {[id |-> s.nextTxnId, amount |-> amount,
                   description |-> TransferIn(accounts[from_id].name),
                   created_at |-> now, account_id |-> to_id,
                   category_id |-> 0, is_transfer |-> TRUE,
                   transfer_pair_id |-> out_id]},
              !.nextTxnId = @ + 1]

TransferLink(s, out_id, in_id) ==
    [s EXCEPT !.transactions =
        {IF t.id = out_id THEN [t EXCEPT !.transfer_pair_id = in_id] ELSE t
           : t \in @}]

\* TransferOutcome with the first flush durable (a commit in place of flush).
TransferOutcome_FlushCommits(before, moved, flushed1, flushed2, linked, fail) ==
    IF fail = "none" THEN linked
    ELSE IF fail = "moved" THEN before
    ELSE flushed1

\* What the store holds once the handler has ended: the session when it
\* reached db.commit(), the tables as they were when it rolled back.
TransferOutcome(before, moved, flushed1, flushed2, linked, fail) ==
    IF fail = "none" THEN linked ELSE before

make_transfer(from_account_id, to_account_id, amount, now, fail) ==
    /\ UNCHANGED <<categories, cache>>
    /\ IF from_account_id \notin AccountIds \/ to_account_id \notin AccountIds
       THEN /\ resp' = Reply("make_transfer", 404,
                             "One of the accounts not found", <<>>)
            /\ UNCHANGED <<accounts, transactions, nextTxnId>>
       ELSE LET from_acc == accounts[from_account_id]
                check == LimitCheck(from_acc, from_acc.balance - amount)
            IN IF check # "ok"
               THEN /\ resp' = Reply("make_transfer", 400,
                                     IF check = "Insufficient funds"
                                     THEN "Insufficient funds in sender account"
                                     ELSE check, <<>>)
                    /\ UNCHANGED <<accounts, transactions, nextTxnId>>
               ELSE LET moved == TransferMove(Session, from_account_id,
                                              to_account_id, amount)
                        out_id == moved.nextTxnId
                        flushed1 == TransferFlushOut(moved, from_account_id,
                                        to_account_id, amount, now)
                        in_id == flushed1.nextTxnId
                        flushed2 == TransferFlushIn(flushed1, from_account_id,
                                        to_account_id, amount, now, out_id)
                        linked == TransferLink(flushed2, out_id, in_id)
                        after == TransferOutcome(Session, moved, flushed1,
                                                 flushed2, linked, fail)
                    IN /\ accounts' = after.accounts
                       /\ transactions' = after.transactions
                       /\ nextTxnId' = after.nextTxnId
                       /\ resp' = IF fail = "none"
                                  THEN Reply("make_transfer", 200, "",
                                             <<after.accounts[from_account_id].balance,
                                               after.accounts[to_account_id].balance>>)
                                  ELSE Reply("make_transfer", 500,
                                             "Error executing transfer", <<>>)

---------------------------------------------------------------------------
(* What bounds a specification: the last transaction id handed out and    *)
(* the magnitude of a balance.  The number of accounts is bounded by the   *)
(* names, which the store keeps unique; the categories by the guard of the *)
(* step that creates them.                                                 *)

Within(maxTxnId, maxBalance) ==
    /\ nextTxnId <= maxTxnId + 1
    /\ \A i \in AccountIds : Abs(accounts[i].balance) <= maxBalance

AccountBody(name, balance, account_type, credit_limit) ==
    [name |-> name, balance |-> balance, account_type |-> account_type,
     credit_limit |-> credit_limit]

AccountNames == {<<"Cash">>, <<"USD", Arrow, "EUR">>}
AnyAccountId == 1..Cardinality(AccountNames)

NoUpdate ==
    [amount |-> Absent, description |-> Absent, created_at |-> Absent,
     account_id |-> Absent, category_id |-> Absent]

---------------------------------------------------------------------------
(* Spec: the balance mutation engine.  Accounts and categories are created *)
(* and then left as they are; transactions and transfers are created,      *)
(* edited and deleted.  The requests carry well-formed bodies (an opening   *)
(* balance within the account's limits, a positive amount, identifiers of  *)
(* existing rows), so that the only refusals are those of the limit test   *)
(* and of the unique account name.                                         *)

MaxCategories == 2
MaxTxnId == 2
MaxBalance == 3

LedgerAccounts ==
    {AccountBody(<<"Cash">>, 0, "cash", 0),
     AccountBody(<<"USD", Arrow, "EUR">>, 0, "credit", 2)}
LedgerAmounts == {1, 2}
LedgerTypes == {"expense", "income"}
LedgerUpdates ==
    {[NoUpdate EXCEPT !.amount = Some(a)] : a \in LedgerAmounts}
    \cup {[NoUpdate EXCEPT !.category_id = Some(i)] : i \in CategoryIds}

LedgerStep ==
    /\ Within(MaxTxnId, MaxBalance)'
    /\ UNCHANGED probe

Next ==
    \/ \E a \in LedgerAccounts :
          /\ create_account(a.name, a.balance, a.account_type,
                            a.credit_limit, TRUE)
          /\ LedgerStep
    \/ \E type \in LedgerTypes :
          /\ Len(categories) < MaxCategories
          /\ create_category(<<"Food">>, type, 0, TRUE, TRUE)
          /\ LedgerStep
    \/ \E amount \in LedgerAmounts, account_id \in AccountIds,
          category_id \in CategoryIds :
          /\ create_transaction(amount, <<>>, account_id, category_id, 1)
          /\ LedgerStep
    \/ \E transaction_id \in TxnIds, update \in LedgerUpdates :
          /\ update_transaction(transaction_id, update)
          /\ LedgerStep
    \/ \E transaction_id \in TxnIds :
          /\ delete_transaction(transaction_id)
          /\ LedgerStep
    \/ \E from_account_id \in AccountIds, to_account_id \in AccountIds,
          amount \in LedgerAmounts :
          /\ make_transfer(from_account_id, to_account_id, amount, 1, "none")
          /\ LedgerStep

Spec == Init /\ [][Next]_vars

\* C1: in every committed state every cash or debit account has
\* balance >= 0.
C1_CashNeverNegative ==
    \A i \in AccountIds :
       accounts[i].account_type \in {"cash", "debit"} => accounts[i].balance >= 0

\* C2: in every committed state every credit account has
\* |balance| <= credit_limit.
C2_CreditWithinLimit ==
    \A i \in AccountIds :
       accounts[i].account_type = "credit"
          => Abs(accounts[i].balance) <= accounts[i].credit_limit

---------------------------------------------------------------------------
(* SpecTransfer: accounts, transfers with an exception raised after any    *)
(* step, deletion and edition of the legs.                                 *)

TransferAccounts ==
    {AccountBody(n, b.balance, b.account_type, b.credit_limit) :
        n \in AccountNames,
        b \in {[balance |-> 2, account_type |-> "cash", credit_limit |-> 0],
               [balance |-> 1, account_type |-> "debit", credit_limit |-> 0],
               [balance |-> 0, account_type |-> "credit", credit_limit |-> 2]}}
TransferAmounts == {1, 2}
TransferTimes == {1, 2}
TransferFailures == {"none", "moved", "flush1", "flush2"}
TransferUpdates ==
    {[NoUpdate EXCEPT !.category_id = Some(1),
                      !.description = Some(<<"edited">>)]}

TransferStep ==
    /\ Within(TransferMaxTxnId, TransferMaxBalance)'
    /\ UNCHANGED probe

TransferNext ==
    \/ \E a \in TransferAccounts :
          /\ create_account(a.name, a.balance, a.account_type,
                            a.credit_limit, TRUE)
          /\ TransferStep
    \/ /\ categories = <<>>
       /\ create_category(<<"Food">>, "expense", 0, TRUE, TRUE)
       /\ TransferStep
    \/ \E from_account_id \in AnyAccountId, to_account_id \in AnyAccountId,
          amount \in TransferAmounts, now \in TransferTimes,
          fail \in TransferFailures :
          /\ make_transfer(from_account_id, to_account_id, amount, now, fail)
          /\ TransferStep
    \/ \E transaction_id \in 1..TransferMaxTxnId, update \in TransferUpdates :
          /\ update_transaction(transaction_id, update)
          /\ TransferStep
    \/ \E transaction_id \in 1..TransferMaxTxnId :
          /\ delete_transaction(transaction_id)
          /\ TransferStep

SpecTransfer == Init /\ [][TransferNext]_vars


TransferRows == {t \in transactions : t.is_transfer}

\* The step adds exactly two rows, both transfer-flagged, without category,
\* with the request's amount and one timestamp, each the pair of the other,
\* the source's row carrying "->" and the destination's row "<-".
TransferRowsAdded(from_account_id, to_account_id, amount) ==
    /\ transactions \subseteq transactions'
    /\ \E out \in transactions' \ transactions,
          in \in transactions' \ transactions :
          /\ transactions' \ transactions = {out, in}
          /\ out.id # in.id
          /\ out.is_transfer /\ in.is_transfer
          /\ out.category_id = 0 /\ in.category_id = 0
          /\ out.amount = amount /\ in.amount = amount
          /\ out.created_at = in.created_at
          /\ out.transfer_pair_id = in.id /\ in.transfer_pair_id = out.id
          /\ out.account_id = from_account_id /\ in.account_id = to_account_id
          /\ Contains(out.description, Arrow)
          /\ Contains(in.description, BackArrow)

TransferSucceeds(from_account_id, to_account_id, amount) ==
    /\ resp'.op = "make_transfer" /\ resp'.status = 200
    /\ \E now \in TransferTimes :
          make_transfer(from_account_id, to_account_id, amount, now, "none")

\* C4 as claimed: a successful transfer decreases the source balance by
\* amount, increases the destination balance by amount and adds the two
\* rows of TransferRowsAdded.
C4_TransferEffect_AsClaimed ==
    [][\A f \in AnyAccountId, t \in AnyAccountId, amount \in TransferAmounts :
          TransferSucceeds(f, t, amount) =>
             /\ accounts'[f].balance = accounts[f].balance - amount
             /\ accounts'[t].balance = accounts[t].balance + amount
             /\ TransferRowsAdded(f, t, amount)]_vars

\* C4 amended: the same, the two balance changes holding when source and
\* destination are different accounts; a transfer from an account to itself
\* adds the two rows and leaves the balance as it was.
C4_TransferEffect ==
    [][\A f \in AnyAccountId, t \in AnyAccountId, amount \in TransferAmounts :
          TransferSucceeds(f, t, amount) =>
             /\ f # t => /\ accounts'[f].balance = accounts[f].balance - amount
                         /\ accounts'[t].balance = accounts[t].balance + amount
             /\ f = t => accounts'[f].balance = accounts[f].balance
             /\ \A i \in AccountIds \ {f, t} : accounts'[i] = accounts[i]
             /\ TransferRowsAdded(f, t, amount)]_vars

C4_Witness ==
    /\ resp.op = "make_transfer" /\ resp.status = 200
    /\ \E out \in TransferRows, in \in TransferRows :
          /\ out.transfer_pair_id = in.id
          /\ out.account_id # in.account_id
          /\ Contains(out.description, Arrow)

\* Every transfer-flagged row has a pair reference that resolves to another
\* transfer-flagged row pointing back to it.
PairsLinked ==
    \A t \in TransferRows :
       \E p \in TransferRows :
          p.id = t.transfer_pair_id /\ p.id # t.id /\ p.transfer_pair_id = t.id

\* C5: in every committed state every transfer-flagged row has a pair
\* reference that resolves to another transfer-flagged row pointing back to
\* it, and a transfer that raised after any of its steps (answered 500)
\* leaves the balances and the rows as they were.
C5_NoSingleLeg ==
    /\ []PairsLinked
    /\ [][resp'.op = "make_transfer" /\ resp'.status = 500
             => UNCHANGED <<accounts, transactions>>]_vars

C5_Witness ==
    /\ resp.op = "make_transfer" /\ resp.status = 500
    /\ Len(accounts) = 2
    /\ transactions = {}

\* The error the claim names for a transfer of amount from account.
TransferRefusal(account, amount) ==
    IF account.account_type = "credit"
    THEN IF Abs(account.balance - amount) > account.credit_limit
         THEN "Credit limit exceeded" ELSE "ok"
    ELSE IF account.balance - amount < 0
         THEN "Insufficient funds in sender account" ELSE "ok"

\* C6: a transfer whose source fails the limit test (cash/debit:
\* balance - amount < 0; credit: |balance - amount| > credit_limit) is
\* answered 400 with the matching error, and the balances and the rows stay
\* as they were.
C6_RefusedTransferChangesNothing ==
    [][\A f \in AccountIds, t \in AccountIds, amount \in TransferAmounts,
          now \in TransferTimes, fail \in TransferFailures :
          (/\ resp'.op = "make_transfer"
           /\ TransferRefusal(accounts[f], amount) # "ok"
           /\ make_transfer(f, t, amount, now, fail))
          => /\ resp'.status = 400
             /\ resp'.detail = TransferRefusal(accounts[f], amount)
             /\ UNCHANGED <<accounts, transactions, nextTxnId>>]_vars

C6_Witness ==
    /\ resp.op = "make_transfer" /\ resp.status = 400
    /\ resp.detail = "Credit limit exceeded"
    /\ Len(accounts) = 2


---------------------------------------------------------------------------
(* SpecRoundTrip: one expense transaction followed through its life.  The  *)
(* store is first filled (accounts, an expense root with a subcategory,    *)
(* earlier transactions); then a transaction is created on an expense      *)
(* category, its amount is edited any number of times and it is deleted.   *)
(* probe records the account, its balance B before the creation, the       *)
(* amount A, the last edited amount A2 and how far the life has gone.      *)

RoundTripAccounts ==
    {AccountBody(<<"Cash">>, 2, "cash", 0),
     AccountBody(<<"USD", Arrow, "EUR">>, 0, "credit", 2)}
RoundTripAmounts == {1, 2, 3}
RoundTripCategories ==
    {[name |-> <<"Food">>, type |-> "expense", parent_id |-> 0],
     [name |-> <<"Lunch">>, type |-> None, parent_id |-> 1]}

RoundTripWithin == Within(RoundTripMaxTxnId, RoundTripMaxBalance)

RoundTripFill ==
    /\ probe.phase = "idle"
    /\ RoundTripWithin'
    /\ UNCHANGED probe

RoundTripNext ==
    \/ \E a \in RoundTripAccounts :
          /\ create_account(a.name, a.balance, a.account_type,
                            a.credit_limit, TRUE)
          /\ RoundTripFill
    \/ \E c \in RoundTripCategories :
          /\ \A i \in CategoryIds : categories[i].name # c.name
          /\ create_category(c.name, c.type, c.parent_id, TRUE, TRUE)
          /\ resp'.status = 200
          /\ RoundTripFill
    \/ \E amount \in RoundTripAmounts, account_id \in AccountIds,
          category_id \in CategoryIds :
          /\ create_transaction(amount, <<>>, account_id, category_id, 1)
          /\ \/ RoundTripFill
             \/ /\ probe.phase = "idle"
                /\ resp'.status = 200
                /\ get_category_type(categories[category_id]) = "expense"
                /\ probe' = [phase |-> "created", account |-> account_id,
                             txn |-> nextTxnId,
                             B |-> accounts[account_id].balance,
                             A |-> amount, A2 |-> 0]
    \/ \E amount \in RoundTripAmounts :
          /\ probe.phase \in {"created", "updated"}
          /\ update_transaction(probe.txn,
                                [NoUpdate EXCEPT !.amount = Some(amount)])
          /\ probe' = IF resp'.status = 200
                      THEN [probe EXCEPT !.phase = "updated", !.A2 = amount]
                      ELSE probe
    \/ /\ probe.phase \in {"created", "updated"}
       /\ delete_transaction(probe.txn)
       /\ probe' = [probe EXCEPT !.phase = "deleted"]

SpecRoundTrip == Init /\ [][RoundTripNext]_vars

\* C3: on an account of balance B, a transaction of amount A created on an
\* expense category leaves the balance B - A; its amount then edited to A2
\* leaves B - A2; the transaction then deleted leaves B.
C3_RoundTrip ==
    /\ probe.phase = "created"
          => accounts[probe.account].balance = probe.B - probe.A
    /\ probe.phase = "updated"
          => accounts[probe.account].balance = probe.B - probe.A2
    /\ probe.phase = "deleted"
          => accounts[probe.account].balance = probe.B

C3_Witness ==
    /\ probe.phase = "deleted"
    /\ probe.A2 \notin {0, probe.A}
    /\ resp.op = "delete_transaction" /\ resp.status = 200
    /\ probe.txn \notin TxnIds


---------------------------------------------------------------------------
(* SpecTransferUndo: a transfer between accounts of any of the names, then *)
(* the deletion of one of its legs.  probe records the two accounts, their *)
(* balances just before the transfer and the identifiers of the two rows.  *)

UndoAccounts ==
    {AccountBody(n, b.balance, b.account_type, b.credit_limit) :
        n \in AccountNames,
        b \in {[balance |-> 2, account_type |-> "cash", credit_limit |-> 0],
               [balance |-> 1, account_type |-> "debit", credit_limit |-> 0],
               [balance |-> 0, account_type |-> "credit", credit_limit |-> 2]}}
UndoAmounts == {1, 2}

UndoNext ==
    \/ \E a \in UndoAccounts :
          /\ probe.phase = "idle"
          /\ create_account(a.name, a.balance, a.account_type,
                            a.credit_limit, TRUE)
          /\ UNCHANGED probe
    \/ \E from_account_id \in AnyAccountId, to_account_id \in AnyAccountId,
          amount \in UndoAmounts :
          /\ probe.phase = "idle"
          /\ make_transfer(from_account_id, to_account_id, amount, 1, "none")
          /\ Within(UndoMaxTxnId, UndoMaxBalance)'
          /\ probe' = IF resp'.status = 200
                      THEN [phase |-> "transferred",
                            from |-> from_account_id, to |-> to_account_id,
                            fromBalance |-> accounts[from_account_id].balance,
                            toBalance |-> accounts[to_account_id].balance,
                            out |-> nextTxnId, in |-> nextTxnId + 1]
                      ELSE probe
    \/ \E leg \in {"out", "in"} :
          /\ probe.phase = "transferred"
          /\ delete_transaction(IF leg = "out" THEN probe.out ELSE probe.in)
          /\ probe' = [probe EXCEPT !.phase = "undone"]

SpecTransferUndo == Init /\ [][UndoNext]_vars

\* C7: once either leg of a transfer has been deleted, both of its rows are
\* gone and both accounts have the balances they had just before the
\* transfer, whatever the names of the accounts.
C7_DeleteRestoresBalances ==
    probe.phase = "undone" =>
       /\ probe.out \notin TxnIds /\ probe.in \notin TxnIds
       /\ accounts[probe.from].balance = probe.fromBalance
       /\ accounts[probe.to].balance = probe.toBalance

\* What does hold: the two rows are gone whichever leg is deleted, and the
\* balances are restored when the name of the source account holds no "->".
C7_RestoresWhenSourceNameHasNoArrow ==
    probe.phase = "undone" =>
       /\ probe.out \notin TxnIds /\ probe.in \notin TxnIds
       /\ ~Contains(accounts[probe.from].name, Arrow) =>
             /\ accounts[probe.from].balance = probe.fromBalance
             /\ accounts[probe.to].balance = probe.toBalance


---------------------------------------------------------------------------
(* SpecCache: the cache-aside reads.  Accounts and categories are created  *)
(* and updated, the three lists are read, entries expire, and any call to  *)
(* the cache store may fail.  probe records, for each key, what the last   *)
(* committed mutation of its list since the last read of the key did to    *)
(* the key ("invalidated": its cache_delete reached the store, "lost": it  *)
(* did not); for the read just answered, which of these it followed        *)
(* (phase), whether its own cache calls reached the store (reached) and    *)
(* whether it repeats a read of the same key that reached the store, the   *)
(* key not having expired (again).  The accounts and the categories share  *)
(* no table and no key: a behaviour works on the accounts while the        *)
(* categories and their keys are as constructed, or the other way round.   *)

ReadOp(key) ==
    CASE key = CACHE_ACCOUNTS_ALL -> "read_accounts"
      [] key = CACHE_CATEGORIES_ALL -> "read_categories"
      [] key = CACHE_CATEGORIES_TREE -> "read_categories_tree"

Listed(key) ==
    CASE key = CACHE_ACCOUNTS_ALL -> AccountsOut(accounts)
      [] key = CACHE_CATEGORIES_ALL -> CategoriesOut(categories)
      [] key = CACHE_CATEGORIES_TREE -> TreeOut(categories)

Read(key, getOk, setOk) ==
    CASE key = CACHE_ACCOUNTS_ALL -> read_accounts(getOk, setOk)
      [] key = CACHE_CATEGORIES_ALL -> read_categories(getOk, setOk)
      [] key = CACHE_CATEGORIES_TREE -> read_categories_tree(getOk, setOk)

Mark(ok) == IF ok THEN "invalidated" ELSE "lost"

AfterWrite(marks) ==
    probe' = [phase |-> "idle", reached |-> FALSE, again |-> FALSE,
              since |-> [k \in CacheKeys |->
                            IF resp'.status = 200 /\ k \in DOMAIN marks
                            THEN marks[k] ELSE probe.since[k]]]

AfterRead(key, getOk, setOk) ==
    probe' = [phase |-> probe.since[key],
              reached |-> getOk /\ (resp'.detail = "hit" \/ setOk),
              again |-> /\ resp.op = ReadOp(key) /\ probe.reached
                        /\ cache[key].present /\ getOk,
              since |-> [probe.since EXCEPT ![key] = "none"]]

CacheAccounts ==
    {AccountBody(<<"Cash">>, 1, "cash", 0), AccountBody(<<"Cash">>, 2, "cash", 0)}
CacheCategories ==
    {[name |-> <<"Food">>, type |-> "expense", parent_id |-> 0],
     [name |-> <<"Lunch">>, type |-> None, parent_id |-> 1]}
CacheRenames == {<<"Meals">>}

AccountsUntouched ==
    accounts = <<>> /\ ~cache[CACHE_ACCOUNTS_ALL].present

CategoriesUntouched ==
    /\ categories = <<>>
    /\ ~cache[CACHE_CATEGORIES_ALL].present
    /\ ~cache[CACHE_CATEGORIES_TREE].present

Untouched(key) ==
    IF key = CACHE_ACCOUNTS_ALL THEN CategoriesUntouched ELSE AccountsUntouched

CacheNext ==
    \/ \E a \in CacheAccounts, delOk \in BOOLEAN :
          /\ CategoriesUntouched
          /\ create_account(a.name, a.balance, a.account_type,
                            a.credit_limit, delOk)
          /\ resp'.status = 200
          /\ AfterWrite(CACHE_ACCOUNTS_ALL :> Mark(delOk))
    \/ \E account_id \in AccountIds, a \in CacheAccounts, delOk \in BOOLEAN :
          /\ CategoriesUntouched
          /\ update_account(account_id, a.name, a.balance, a.account_type,
                            a.credit_limit, delOk)
          /\ AfterWrite(CACHE_ACCOUNTS_ALL :> Mark(delOk))
    \/ \E c \in CacheCategories, delOk1 \in BOOLEAN, delOk2 \in BOOLEAN :
          /\ AccountsUntouched
          /\ Len(categories) < Cardinality(CacheCategories)
          /\ create_category(c.name, c.type, c.parent_id, delOk1, delOk2)
          /\ resp'.status = 200
          /\ AfterWrite(CACHE_CATEGORIES_ALL :> Mark(delOk1)
                        @@ CACHE_CATEGORIES_TREE :> Mark(delOk2))
    \/ \E category_id \in CategoryIds, name \in CacheRenames,
          delOk1 \in BOOLEAN, delOk2 \in BOOLEAN :
          /\ AccountsUntouched
          /\ update_category(category_id, name, "expense", delOk1, delOk2)
          /\ AfterWrite(CACHE_CATEGORIES_ALL :> Mark(delOk1)
                        @@ CACHE_CATEGORIES_TREE :> Mark(delOk2))
    \/ \E key \in CacheKeys, getOk \in BOOLEAN, setOk \in BOOLEAN :
          /\ Untouched(key)
          /\ Read(key, getOk, setOk)
          /\ AfterRead(key, getOk, setOk)
    \/ \E key \in CacheKeys :
          /\ expire_key(key)
          /\ UNCHANGED probe

SpecCache == Init /\ [][CacheNext]_vars


\* C8: a list read that follows a committed create or update of its list
\* (accounts for accounts:all, categories for categories:all and
\* categories:tree) returns the list as the store holds it, whatever the key
\* held before the mutation.
C8_ReadAfterMutationIsFresh ==
    \A key \in CacheKeys :
       resp.op = ReadOp(key) /\ probe.phase \in {"invalidated", "lost"}
          => resp.body = Listed(key)

\* What does hold: the read is fresh when the cache_delete of the last
\* mutation before it reached the cache store.
C8_FreshWhenInvalidationReached ==
    \A key \in CacheKeys :
       resp.op = ReadOp(key) /\ probe.phase = "invalidated"
          => resp.body = Listed(key)

C8_FreshWhenInvalidationReached_Witness ==
    /\ resp.op = "read_categories_tree" /\ probe.phase = "invalidated"
    /\ resp.detail = "miss"
    /\ Len(resp.body) = 1 /\ Len(resp.body[1].children) = 1

\* C10: a list read whose cache calls reach the store leaves the key
\* populated with the data it returned; and when the cache calls of two
\* consecutive reads of one key reach the store, with no mutation and no
\* expiry in between, the second is answered from the cache, with the data
\* the first returned.
C10_IdempotentReads ==
    [][\A key \in CacheKeys :
          /\ Read(key, TRUE, TRUE) =>
                /\ cache'[key].present
                /\ json_loads(cache'[key].data) = resp'.body
          /\ (/\ resp.op = ReadOp(key) /\ probe.reached /\ cache[key].present
              /\ \E setOk \in BOOLEAN : Read(key, TRUE, setOk))
                => /\ resp'.detail = "hit"
                   /\ resp'.body = resp.body
                   /\ UNCHANGED cache]_vars

C10_Witness ==
    /\ probe.again
    /\ resp.op = "read_categories" /\ resp.detail = "hit"
    /\ Len(resp.body) = 2
    /\ resp.body = CategoriesOut(categories)


---------------------------------------------------------------------------
(* SpecStaleBalances: the accounts list read between the operations that   *)
(* change balances.  Every call to the cache store reaches it.  probe      *)
(* records "balance" for accounts:all when the last committed mutation     *)
(* since the last read of the list was one of these operations.            *)

StaleAccounts ==
    {AccountBody(<<"Cash">>, 2, "cash", 0),
     AccountBody(<<"USD", Arrow, "EUR">>, 0, "credit", 2)}
StaleAmounts == {1, 2}
StaleTypes == {"expense", "income"}

BalanceChanged ==
    /\ Within(StaleMaxTxnId, StaleMaxBalance)'
    /\ AfterWrite(CACHE_ACCOUNTS_ALL :> "balance")

StaleNext ==
    \/ \E a \in StaleAccounts :
          /\ create_account(a.name, a.balance, a.account_type,
                            a.credit_limit, TRUE)
          /\ resp'.status = 200
          /\ AfterWrite(CACHE_ACCOUNTS_ALL :> Mark(TRUE))
    \/ \E type \in StaleTypes :
          /\ categories = <<>>
          /\ create_category(<<"Food">>, type, 0, TRUE, TRUE)
          /\ AfterWrite(CACHE_CATEGORIES_ALL :> Mark(TRUE)
                        @@ CACHE_CATEGORIES_TREE :> Mark(TRUE))
    \/ \E amount \in StaleAmounts, account_id \in AccountIds,
          category_id \in CategoryIds :
          /\ create_transaction(amount, <<>>, account_id, category_id, 1)
          /\ BalanceChanged
    \/ \E transaction_id \in TxnIds, amount \in StaleAmounts :
          /\ ~Txn(transaction_id).is_transfer
          /\ update_transaction(transaction_id,
                                [NoUpdate EXCEPT !.amount = Some(amount)])
          /\ BalanceChanged
    \/ \E transaction_id \in TxnIds :
          /\ delete_transaction(transaction_id)
          /\ BalanceChanged
    \/ \E from_account_id \in AccountIds, to_account_id \in AccountIds,
          amount \in StaleAmounts :
          /\ from_account_id # to_account_id
          /\ make_transfer(from_account_id, to_account_id, amount, 1, "none")
          /\ BalanceChanged
    \/ /\ read_accounts(TRUE, TRUE)
       /\ AfterRead(CACHE_ACCOUNTS_ALL, TRUE, TRUE)
    \/ /\ expire_key(CACHE_ACCOUNTS_ALL)
       /\ UNCHANGED probe

SpecStaleBalances == Init /\ [][StaleNext]_vars

\* C9: the accounts list read next after a committed operation that changes
\* a balance (transaction create, update or delete, transfer create or
\* delete) shows the balances the store holds, whatever accounts:all held
\* before the operation.
C9_NoStaleBalance ==
    resp.op = "read_accounts" /\ probe.phase = "balance"
       => resp.body = AccountsOut(accounts)

\* What does hold: such a read shows the store's balances when the key was
\* absent, and otherwise what the key held.
C9_FreshOnlyOnMiss ==
    resp.op = "read_accounts" /\ probe.phase = "balance" /\ resp.detail = "miss"
       => resp.body = AccountsOut(accounts)


---------------------------------------------------------------------------
(* The rate limiter.  Its counters live in the cache store next to the     *)
(* list entries, under "ratelimit:{client_ip}"; a counter is a record      *)
(* [present, data, ttl] with data the count and ttl the seconds left, -1   *)
(* when the key has no expiry.  A key the store does not hold is outside   *)
(* the domain of the store.  fail says where the store fails during a      *)
(* check: "pipeline" and "expire" before the command reaches the store,    *)
(* "pipeline_reply" and "expire_reply" after the store has executed it,    *)
(* the reply being lost.                                                   *)

RateMax == 2
RateWindow == 2
RateMaxCount == 4

RateFailures ==
    {"none", "pipeline", "pipeline_reply", "expire", "expire_reply"}

RateKey(client_ip) == "ratelimit:" \o client_ip

Counter(store, key) ==
    IF key \in DOMAIN store THEN store[key] ELSE [present |-> FALSE,
                                                  data |-> 0, ttl |-> -2]

incr(store, key) ==
    LET old == Counter(store, key) IN
    (key :> [present |-> TRUE, data |-> old.data + 1,
             ttl |-> IF old.present THEN old.ttl ELSE -1]) @@ store

ttl(store, key) == Counter(store, key).ttl

expire(store, key, seconds) ==
    IF Counter(store, key).present
    THEN [store EXCEPT ![key].ttl = seconds]
    ELSE store

\* A check that denies one request too early.
RateAllowed_Strict(current_count, max_requests) ==
    current_count < max_requests

RateAllowed(current_count, max_requests) == current_count <= max_requests

\* A check that sets the expiry on every request.
FirstInWindow_Always(current_ttl) == TRUE

FirstInWindow(current_ttl) == current_ttl = -1

\* A check that refuses the request when the store fails.
FailOpen_Closed(max_requests) ==
    [allowed |-> FALSE, current |-> 0, limit |-> max_requests,
     remaining |-> 0]

FailOpen(max_requests) ==
    [allowed |-> TRUE, current |-> 0, limit |-> max_requests,
     remaining |-> max_requests]

\* The store after the check and the dictionary the check returns.
check_rate_limit(store, client_ip, max_requests, window_seconds, fail) ==
    LET key == RateKey(client_ip)
        piped == incr(store, key)
        current_count == piped[key].data
        current_ttl == ttl(piped, key)
        expired == IF FirstInWindow(current_ttl)
                   THEN expire(piped, key, window_seconds)
                   ELSE piped
        remaining == IF max_requests - current_count > 0
                     THEN max_requests - current_count ELSE 0
    IN  CASE fail = "pipeline" ->
               [store |-> store, result |-> FailOpen(max_requests)]
          [] fail = "pipeline_reply" ->
               [store |-> piped, result |-> FailOpen(max_requests)]
          [] fail = "expire" /\ FirstInWindow(current_ttl) ->
               [store |-> piped, result |-> FailOpen(max_requests)]
          [] fail = "expire_reply" /\ FirstInWindow(current_ttl) ->
               [store |-> expired, result |-> FailOpen(max_requests)]
          [] OTHER ->
               [store |-> expired,
                result |-> [allowed |-> RateAllowed(current_count,
                                                    max_requests),
                            current |-> current_count,
                            limit |-> max_requests,
                            remaining |-> remaining]]

\* A middleware that exempts no path.
ExemptPaths_None == {}

ExemptPaths == {"/health", "/ready"}

\* A middleware that does not count the requests it denies.
rate_limit_middleware_DeniedUncounted(path, client_ip, fail) ==
    /\ UNCHANGED dbVars
    /\ IF path \in ExemptPaths
       THEN UNCHANGED <<cache, resp>>
       ELSE LET r == check_rate_limit(cache, client_ip, RateMax, RateWindow,
                                      fail) IN
            IF ~r.result.allowed
            THEN /\ UNCHANGED cache
                 /\ resp' = Reply("rate_limit_middleware", 429,
                                  "Too many requests. Try again later.",
                                  [limit |-> r.result.limit, remaining |-> 0,
                                   retry_after |-> 60])
            ELSE /\ cache' = r.store
                 /\ UNCHANGED resp

\* The middleware up to call_next: the request is answered 429 here, or it
\* goes on to its handler.
rate_limit_middleware(path, client_ip, fail) ==
    /\ UNCHANGED dbVars
    /\ IF path \in ExemptPaths
       THEN UNCHANGED <<cache, resp>>
       ELSE LET r == check_rate_limit(cache, client_ip, RateMax, RateWindow,
                                      fail) IN
            /\ cache' = r.store
            /\ IF ~r.result.allowed
               THEN resp' = Reply("rate_limit_middleware", 429,
                                  "Too many requests. Try again later.",
                                  [limit |-> r.result.limit, remaining |-> 0,
                                   retry_after |-> 60])
               ELSE UNCHANGED resp

health_check ==
    /\ resp' = Reply("health_check", 200, "", "healthy")
    /\ UNCHANGED <<dbVars, cache>>

\* One second passes: every counter with an expiry is one second closer to
\* it, and the store drops the counters that reach it.
RateKeys(store) == DOMAIN store \ CacheKeys

Tick ==
    /\ \E key \in RateKeys(cache) : cache[key].ttl >= 1
    /\ cache' = [key \in {k \in DOMAIN cache :
                             k \in RateKeys(cache) => cache[k].ttl # 1} |->
                    IF key \in RateKeys(cache) /\ cache[key].ttl > 1
                    THEN [cache[key] EXCEPT !.ttl = @ - 1]
                    ELSE cache[key]]
    /\ UNCHANGED <<dbVars, resp>>


---------------------------------------------------------------------------
(* SpecRateLimit: requests of two clients pass the rate limiter one at a   *)
(* time while seconds go by and the cache store may fail at any step of a  *)
(* check.  probe holds the position of the request (phase "admitted": the  *)
(* check let it through and its handler has not run yet; "denied";         *)
(* "served"), its client and path, what the check returned (the response   *)
(* headers), and for each client the number of checks made in the window   *)
(* of its counter, -1 once a check of that window hit a store error, the   *)
(* clients whose latest check was a denial (throttled), and whether the    *)
(* request is one of a client that was throttled (back).                   *)

RateClients == {"10.0.0.1", "unknown"}
RatePaths == {"/accounts/", "/health"}

Phase == probe.phase

Checks(client_ip) ==
    IF "window" \in DOMAIN probe THEN probe.window[client_ip] ELSE 0

Throttled == IF "throttled" \in DOMAIN probe THEN probe.throttled ELSE {}

Counted(client_ip, path, r) ==
    IF path \in ExemptPaths THEN Checks(client_ip)
    ELSE IF ~Counter(r.store, RateKey(client_ip)).present THEN 0
    ELSE IF r.result.current = 0 \/ Checks(client_ip) < 0 THEN -1
    ELSE Checks(client_ip) + 1

AfterCheck(path, client_ip, fail) ==
    LET r == check_rate_limit(cache, client_ip, RateMax, RateWindow, fail) IN
    probe' = [phase |-> IF path \in ExemptPaths \/ r.result.allowed
                        THEN "admitted" ELSE "denied",
              client |-> client_ip,
              path |-> path,
              result |-> r.result,
              throttled |-> IF path \in ExemptPaths THEN Throttled
                            ELSE IF r.result.allowed
                            THEN Throttled \ {client_ip}
                            ELSE Throttled \cup {client_ip},
              back |-> path \notin ExemptPaths /\ client_ip \in Throttled,
              window |-> [ip \in RateClients |->
                             IF ip = client_ip
                             THEN Counted(client_ip, path, r)
                             ELSE Checks(ip)]]

AfterTick ==
    probe' = [probe EXCEPT !.window =
                 [ip \in RateClients |->
                     IF RateKey(ip) \in DOMAIN cache' THEN @[ip] ELSE 0]]

RateNext ==
    \/ \E path \in RatePaths, client_ip \in RateClients,
          fail \in RateFailures :
          /\ Phase # "admitted"
          /\ path \in ExemptPaths => fail = "none"
          /\ Counter(cache, RateKey(client_ip)).data < RateMaxCount
          /\ rate_limit_middleware(path, client_ip, fail)
          /\ AfterCheck(path, client_ip, fail)
    \/ \E getOk \in BOOLEAN, setOk \in BOOLEAN :
          /\ Phase = "admitted" /\ probe.path = "/accounts/"
          /\ read_accounts(getOk, setOk)
          /\ probe' = [probe EXCEPT !.phase = "served"]
    \/ /\ Phase = "admitted" /\ probe.path = "/health"
       /\ health_check
       /\ probe' = [probe EXCEPT !.phase = "served"]
    \/ /\ Tick
       /\ AfterTick

SpecRateLimit == Init /\ [][RateNext]_vars

\* C11: in a window of a client in which no check has hit a store error,
\* the n-th check leaves the counter at n, lets the request through when
\* n <= RateMax and answers it 429 otherwise: the first RateMax checks are
\* allowed and every further one is denied.
C11_AllowedUpToLimit ==
    [][\A client_ip \in RateClients :
          (/\ Checks(client_ip) >= 0
           /\ rate_limit_middleware("/accounts/", client_ip, "none")
           /\ AfterCheck("/accounts/", client_ip, "none"))
             => LET n == Checks(client_ip) + 1 IN
                /\ Counter(cache', RateKey(client_ip)).data = n
                /\ probe'.result.allowed <=> n <= RateMax
                /\ IF n <= RateMax
                   THEN probe'.phase = "admitted" /\ resp' = resp
                   ELSE /\ probe'.phase = "denied"
                        /\ resp'.op = "rate_limit_middleware"
                        /\ resp'.status = 429]_vars

C11_Witness ==
    /\ Phase = "denied" /\ resp.status = 429
    /\ Checks(probe.client) = RateMax + 1
    /\ Counter(cache, RateKey(probe.client)).data = RateMax + 1


\* Seconds keep going by: the store's clock is not held up by requests.
SpecRateLimitFair ==
    Init /\ [][RateNext]_vars /\ WF_vars(Tick /\ AfterTick)

\* A check of client_ip in which every call reached the store.
CleanCheck(client_ip) ==
    /\ rate_limit_middleware("/accounts/", client_ip, "none")
    /\ AfterCheck("/accounts/", client_ip, "none")

\* C12: a check that hit no store error leaves the client's counter with an
\* expiry of at most RateWindow seconds; no step, a denied request
\* included, moves an expiry further away; so the counter of a client that
\* has been denied is eventually gone, and the check that then finds no
\* counter starts a window with count 1 and allows the request.
C12_ThrottledClientAllowedAgain ==
    /\ [][\A client_ip \in RateClients :
             LET key == RateKey(client_ip) IN
             /\ CleanCheck(client_ip) =>
                   /\ Counter(cache', key).ttl \in 1..RateWindow
                   /\ ~Counter(cache, key).present =>
                         /\ Counter(cache', key).data = 1
                         /\ Counter(cache', key).ttl = RateWindow
                         /\ probe'.result.allowed
                         /\ probe'.phase = "admitted"
             /\ Counter(cache, key).ttl >= 1 =>
                   \/ ~Counter(cache', key).present
                   \/ Counter(cache', key).ttl \in 1..Counter(cache, key).ttl
         ]_vars
    /\ \A client_ip \in RateClients :
          (client_ip \in Throttled)
             ~> ~Counter(cache, RateKey(client_ip)).present

C12_Witness ==
    /\ Phase = "admitted" /\ probe.back
    /\ probe.result.allowed /\ probe.result.current = 1
    /\ Counter(cache, RateKey(probe.client)).ttl = RateWindow


\* The store fails during a check of client_ip made in the current state:
\* at the pipeline, or at the expire call when the check makes one.
StoreFails(client_ip, fail) ==
    \/ fail \in {"pipeline", "pipeline_reply"}
    \/ /\ fail \in {"expire", "expire_reply"}
       /\ FirstInWindow(ttl(incr(cache, RateKey(client_ip)),
                            RateKey(client_ip)))

\* C13: a check during which the cache store fails, at the pipeline or at
\* the expire call, returns allowed with remaining = RateMax, whatever the
\* counter holds, and the request goes on to its handler: no 429 is written.
C13_FailOpen ==
    [][\A client_ip \in RateClients, fail \in RateFailures \ {"none"} :
          (/\ StoreFails(client_ip, fail)
           /\ rate_limit_middleware("/accounts/", client_ip, fail)
           /\ AfterCheck("/accounts/", client_ip, fail))
             => /\ probe'.result.allowed
                /\ probe'.result.remaining = RateMax
                /\ probe'.result.limit = RateMax
                /\ probe'.phase = "admitted"
                /\ resp' = resp]_vars

C13_Witness ==
    /\ Phase = "served" /\ probe.path = "/accounts/"
    /\ probe.result.current = 0 /\ probe.result.allowed
    /\ Counter(cache, RateKey(probe.client)).data > RateMax
    /\ resp.op = "read_accounts" /\ resp.status = 200


---------------------------------------------------------------------------
(* SpecCache again: what a failing cache store does to the callers.        *)

\* C14: with the cache store failing at any of its calls, every list read
\* is answered 200 with the list as the persistent store holds it, and
\* every create or update that passes validation commits and is answered
\* 200.
C14_CacheFailureNeverSurfaces ==
    /\ \A key \in CacheKeys :
          resp.op = ReadOp(key) =>
             resp.status = 200 /\ resp.body = Listed(key)
    /\ resp.op \in {"create_account", "create_category"} => resp.status = 200

\* What does hold: no read and no mutation is answered with an error
\* because of the cache, and a read whose own cache_get fails returns the
\* list as the persistent store holds it.
C14_ServedWithoutCache ==
    [][/\ \A key \in CacheKeys, setOk \in BOOLEAN :
             Read(key, FALSE, setOk)
                => /\ resp'.status = 200 /\ resp'.detail = "miss"
                   /\ resp'.body = Listed(key)
       /\ \A a \in CacheAccounts :
             (/\ create_account(a.name, a.balance, a.account_type,
                                a.credit_limit, FALSE)
              /\ ~NameTaken(a.name, 0))
                => /\ resp'.status = 200
                   /\ Len(accounts') = Len(accounts) + 1]_vars


---------------------------------------------------------------------------
(* SpecCategories: categories are created under any parent, existing or    *)
(* not, with any type the schema lets through (a string or null), and are  *)
(* updated; transactions are posted against them on one cash account.      *)

CategoryMaxRows == 3
CategoryMaxTxnId == 1
CategoryMaxBalance == 3

CategoryTypes == {"expense", "income", "savings", None}
CategoryAccount == AccountBody(<<"Cash">>, 2, "cash", 0)
CategoryAmounts == {1}

CategoryStep ==
    /\ Within(CategoryMaxTxnId, CategoryMaxBalance)'
    /\ UNCHANGED probe

CategoriesNext ==
    \/ /\ accounts = <<>>
       /\ create_account(CategoryAccount.name, CategoryAccount.balance,
                         CategoryAccount.account_type,
                         CategoryAccount.credit_limit, TRUE)
       /\ CategoryStep
    \/ \E type \in CategoryTypes, parent_id \in 0..CategoryMaxRows :
          /\ Len(categories) < CategoryMaxRows
          /\ create_category(<<"Food">>, type, parent_id, TRUE, TRUE)
          /\ CategoryStep
    \/ \E category_id \in 1..CategoryMaxRows, type \in CategoryTypes :
          /\ update_category(category_id, <<"Food">>, type, TRUE, TRUE)
          /\ CategoryStep
    \/ \E amount \in CategoryAmounts, account_id \in AccountIds,
          category_id \in CategoryIds :
          /\ create_transaction(amount, <<>>, account_id, category_id, 1)
          /\ CategoryStep

SpecCategories == Init /\ [][CategoriesNext]_vars

NestingAtMostOne ==
    \A i \in CategoryIds :
       categories[i].parent_id # 0
          => /\ categories[i].parent_id \in CategoryIds
             /\ categories[categories[i].parent_id].parent_id = 0

\* C15: in every reachable state no category's parent has a parent, and a
\* create whose declared parent has a parent is answered 400 and adds no
\* row.
C15_NestingAtMostOne ==
    /\ []NestingAtMostOne
    /\ [][\A type \in CategoryTypes, parent_id \in CategoryIds :
             (/\ categories[parent_id].parent_id # 0
              /\ create_category(<<"Food">>, type, parent_id, TRUE, TRUE))
                => /\ resp'.status = 400
                   /\ categories' = categories]_vars

C15_Witness ==
    /\ resp.op = "create_category" /\ resp.status = 400
    /\ \E i \in CategoryIds : categories[i].parent_id # 0

C17_EffectiveTypeIsIncomeOrExpense ==
    /\ [](\A i \in CategoryIds :
             get_category_type(categories[i]) \in {"income", "expense"})
    /\ [][\A amount \in CategoryAmounts, account_id \in AccountIds,
             category_id \in CategoryIds :
             (/\ create_transaction(amount, <<>>, account_id, category_id, 1)
              /\ resp'.status = 200)
                => Abs(accounts'[account_id].balance
                          - accounts[account_id].balance) = amount]_vars


---------------------------------------------------------------------------
(* SpecRefusals: transactions are created and updated with identifiers     *)
(* that may name no account or no category, and with amounts that may      *)
(* break the limit of the account.                                         *)

RefusalMaxTxnId == 1
RefusalMaxBalance == 3

RefusalAccounts ==
    {AccountBody(<<"Cash">>, 1, "cash", 0),
     AccountBody(<<"USD", Arrow, "EUR">>, 0, "credit", 1)}
RefusalTypes == {"expense", "income"}
RefusalAmounts == {1, 2}
RefusalAccountIds == 1..(Len(accounts) + 1)
RefusalCategoryIds == 1..(Len(categories) + 1)
RefusalUpdates ==
    {[NoUpdate EXCEPT !.amount = Some(a)] : a \in RefusalAmounts}
    \cup {[NoUpdate EXCEPT !.account_id = Some(i)] : i \in RefusalAccountIds}
    \cup {[NoUpdate EXCEPT !.category_id = Some(i)] : i \in RefusalCategoryIds}

RefusalStep ==
    /\ Within(RefusalMaxTxnId, RefusalMaxBalance)'
    /\ UNCHANGED probe

RefusalsNext ==
    \/ \E a \in RefusalAccounts :
          /\ create_account(a.name, a.balance, a.account_type,
                            a.credit_limit, TRUE)
          /\ resp'.status = 200
          /\ RefusalStep
    \/ \E type \in RefusalTypes :
          /\ \A i \in CategoryIds : categories[i].type # type
          /\ create_category(<<"Food">>, type, 0, TRUE, TRUE)
          /\ RefusalStep
    \/ \E amount \in RefusalAmounts, account_id \in RefusalAccountIds,
          category_id \in RefusalCategoryIds :
          /\ create_transaction(amount, <<>>, account_id, category_id, 1)
          /\ RefusalStep
    \/ \E transaction_id \in TxnIds, update \in RefusalUpdates :
          /\ update_transaction(transaction_id, update)
          /\ RefusalStep

SpecRefusals == Init /\ [][RefusalsNext]_vars

\* The client error the ledger rules give for a debit or credit of amount
\* on account_id under category_id, the balances being accs; "ok" when they
\* give none.
Refusal(accs, account_id, category_id, amount) ==
    IF account_id \notin AccountIds \/ category_id \notin CategoryIds
    THEN "Account or Category not found"
    ELSE IF get_category_type(categories[category_id]) # "expense"
    THEN "ok"
    ELSE IF accs[account_id].account_type = "credit"
    THEN IF Abs(accs[account_id].balance - amount)
               > accs[account_id].credit_limit
         THEN "Credit limit exceeded" ELSE "ok"
    ELSE IF accs[account_id].balance - amount < 0
         THEN "Insufficient funds" ELSE "ok"

RefusalStatus(detail) ==
    IF detail = "Account or Category not found" THEN 404 ELSE 400

\* C18: a create_transaction that names no account or no category, or whose
\* expense would overdraw a cash or debit account or take a credit account
\* past its limit, is answered with that client error, adds no row and
\* changes no balance; and no create_transaction that is answered with an
\* error adds a row or changes a balance.
C18_RefusedCreateChangesNothing ==
    [][\A amount \in RefusalAmounts, account_id \in RefusalAccountIds,
          category_id \in RefusalCategoryIds :
          create_transaction(amount, <<>>, account_id, category_id, 1) =>
             LET detail == Refusal(accounts, account_id, category_id, amount)
             IN /\ detail # "ok" =>
                      /\ resp'.status = RefusalStatus(detail)
                      /\ resp'.detail = detail
                /\ resp'.status # 200 =>
                      /\ detail # "ok"
                      /\ UNCHANGED <<accounts, transactions, nextTxnId>>
      ]_vars

C18_Witness ==
    /\ resp.op = "create_transaction" /\ resp.status = 400
    /\ resp.detail = "Credit limit exceeded"
    /\ transactions = {}
    /\ \E i \in AccountIds :
          accounts[i].account_type = "credit" /\ accounts[i].balance = 0

\* C19: an update_transaction whose new account or category does not exist,
\* or whose new expense would overdraw the new account or take it past its
\* limit once the old effect is reversed, is answered with that client
\* error and leaves every balance and every row as it was before the call.
C19_RefusedUpdateChangesNothing ==
    [][\A transaction_id \in TxnIds, update \in RefusalUpdates :
          update_transaction(transaction_id, update) =>
             LET txn == Txn(transaction_id)
                 new == Patched(txn, update)
                 reversed == Reverse(accounts, txn.account_id,
                                     RowType(txn.category_id), txn.amount)
                 detail == Refusal(reversed, new.account_id,
                                   new.category_id, new.amount)
             IN /\ detail # "ok" =>
                      /\ resp'.status = RefusalStatus(detail)
                      /\ resp'.detail = detail
                /\ resp'.status # 200 =>
                      /\ detail # "ok"
                      /\ UNCHANGED <<accounts, transactions>>
      ]_vars

C19_Witness ==
    /\ resp.op = "update_transaction" /\ resp.status = 400
    /\ resp.detail = "Insufficient funds"
    /\ \E t \in transactions :
          /\ t.amount = 1
          /\ accounts[t.account_id].account_type = "cash"
          /\ accounts[t.account_id].balance = 0
          /\ get_category_type(categories[t.category_id]) = "expense"


---------------------------------------------------------------------------
(* SpecFrame: every operation of the API on two accounts and one category, *)
(* to see which of them move a balance.  The cache store is out of reach   *)
(* in these runs: every list is read from the persistent store.            *)

FrameMaxTxnId == 2
FrameMaxBalance == 3

FrameAccounts ==
    {AccountBody(<<"Cash">>, 1, "cash", 0),
     AccountBody(<<"USD", Arrow, "EUR">>, 0, "credit", 2)}
FrameEdits == {AccountBody(<<"Cash">>, 3, "cash", 0)}
FrameTypes == {"expense", "income"}
FrameAmounts == {1}

FrameStep ==
    /\ Within(FrameMaxTxnId, FrameMaxBalance)'
    /\ UNCHANGED probe

FrameNext ==
    \/ \E a \in FrameAccounts :
          /\ create_account(a.name, a.balance, a.account_type,
                            a.credit_limit, FALSE)
          /\ FrameStep
    \/ \E account_id \in AccountIds, a \in FrameEdits :
          /\ update_account(account_id, a.name, a.balance, a.account_type,
                            a.credit_limit, FALSE)
          /\ FrameStep
    \/ \E type \in FrameTypes :
          /\ categories = <<>>
          /\ create_category(<<"Food">>, type, 0, FALSE, FALSE)
          /\ FrameStep
    \/ \E category_id \in CategoryIds :
          /\ update_category(category_id, <<"Meals">>,
                             categories[category_id].type, FALSE, FALSE)
          /\ FrameStep
    \/ \E key \in CacheKeys :
          /\ Read(key, FALSE, FALSE)
          /\ FrameStep
    \/ \E amount \in FrameAmounts, account_id \in AccountIds,
          category_id \in CategoryIds :
          /\ create_transaction(amount, <<>>, account_id, category_id, 1)
          /\ FrameStep
    \/ \E transaction_id \in TxnIds, amount \in FrameAmounts :
          /\ update_transaction(transaction_id,
                                [NoUpdate EXCEPT !.amount = Some(amount + 1)])
          /\ FrameStep
    \/ \E transaction_id \in TxnIds :
          /\ delete_transaction(transaction_id)
          /\ FrameStep
    \/ \E from_account_id \in AccountIds, to_account_id \in AccountIds,
          amount \in FrameAmounts :
          /\ make_transfer(from_account_id, to_account_id, amount, 1, "none")
          /\ FrameStep

SpecFrame == Init /\ [][FrameNext]_vars

BalanceMoves ==
    \E i \in AccountIds : accounts'[i].balance # accounts[i].balance

BalanceMutations ==
    {"create_transaction", "update_transaction", "delete_transaction",
     "make_transfer"}

\* C20 as stated: the balance of an existing account changes only in a step
\* of a transaction create, update or delete or of a transfer create or
\* delete; the account update call changes no balance.
C20_OnlyLedgerMovesBalances ==
    [][BalanceMoves => resp'.op \in BalanceMutations]_vars

\* C20, amended: the balance of an existing account changes only in a step
\* of a transaction create, update or delete, of a transfer create or
\* delete, or of an account update answered 200, which sets the balance of
\* its account to the balance of the request and changes no other one.
C20_LedgerOrAccountUpdateMovesBalances ==
    [][/\ BalanceMoves =>
             /\ resp'.op \in BalanceMutations \cup {"update_account"}
             /\ resp'.status = 200
       /\ \A account_id \in AccountIds, a \in FrameEdits :
             (/\ update_account(account_id, a.name, a.balance,
                                a.account_type, a.credit_limit, FALSE)
              /\ resp'.status = 200)
                => /\ accounts'[account_id].balance = a.balance
                   /\ \A i \in AccountIds \ {account_id} :
                         accounts'[i].balance = accounts[i].balance]_vars

C20_Witness ==
    /\ resp.op = "update_account" /\ resp.status = 200
    /\ transactions = {} /\ nextTxnId = 1
    /\ \E i \in AccountIds :
          /\ accounts[i].balance = 3
          /\ accounts[i].account_type = "cash"


---------------------------------------------------------------------------
(* SpecConcurrent: two requests to create_transaction in flight at once.   *)
(* Each request has its own session: its queries read the committed rows   *)
(* (the engine is created with the default isolation level and no query    *)
(* locks a row), the new balance is computed in the session, and           *)
(* db.commit() flushes "UPDATE accounts SET balance = <computed value>"    *)
(* with the INSERT of the row and commits them.  probe holds the sessions  *)
(* in flight and whether two of them have overlapped.                      *)

ConcurrentMaxTxnId == 2
ConcurrentMaxBalance == 4

ConcurrentSessions == {"s1", "s2"}
ConcurrentAccount == AccountBody(<<"Cash">>, 2, "cash", 0)
ConcurrentTypes == {"expense", "income"}
ConcurrentAmounts == {1, 2}

NoSession == [pc |-> "idle"]

InFlight(s) ==
    IF "sessions" \in DOMAIN probe THEN probe.sessions[s] ELSE NoSession

Overlapped == IF "sessions" \in DOMAIN probe THEN probe.overlapped ELSE FALSE

\* create_transaction up to db.commit(): the queries, the limit check and
\* the assignment to account.balance inside session s.
create_transaction_compute(s, amount, description, account_id, category_id, created_at) ==
    /\ InFlight(s).pc = "idle"
    /\ UNCHANGED <<dbVars, cache>>
    /\ IF account_id \notin AccountIds \/ category_id \notin CategoryIds
       THEN /\ resp' = Reply("create_transaction", 404,
                             "Account or Category not found", <<>>)
            /\ UNCHANGED probe
       ELSE LET account == accounts[account_id]
                cat_type == get_category_type(categories[category_id])
                new_balance == account.balance - amount
                check == IF cat_type = "expense"
                         THEN LimitCheck(account, new_balance) ELSE "ok"
            IN IF check # "ok"
               THEN /\ resp' = Reply("create_transaction", 400, check, <<>>)
                    /\ UNCHANGED probe
               ELSE /\ UNCHANGED resp
                    /\ probe' =
                         [phase |-> "concurrent",
                          overlapped |->
                             \/ Overlapped
                             \/ \E o \in ConcurrentSessions \ {s} :
                                   InFlight(o).pc = "computed",
                          sessions |->
                             [o \in ConcurrentSessions |->
                                IF o # s THEN InFlight(o)
                                ELSE [pc |-> "computed",
                                      amount |-> amount,
                                      description |-> description,
                                      created_at |-> created_at,
                                      account_id |-> account_id,
                                      category_id |-> category_id,
                                      dirty |-> cat_type \in {"expense", "income"},
                                      balance |->
                                         IF cat_type = "expense"
                                         THEN new_balance
                                         ELSE account.balance + amount]]]

\* db.commit() of session s: the flush writes the balance the session
\* computed and inserts the row.
create_transaction_commit(s) ==
    /\ InFlight(s).pc = "computed"
    /\ LET mine == InFlight(s) IN
       /\ accounts' = IF mine.dirty
                      THEN [accounts EXCEPT
                               ![mine.account_id].balance = mine.balance]
                      ELSE accounts
       /\ transactions' = transactions \cup
             {[id |-> nextTxnId, amount |-> mine.amount,
               description |-> mine.description,
               created_at |-> mine.created_at,
               account_id |-> mine.account_id,
               category_id |-> mine.category_id,
               is_transfer |-> FALSE, transfer_pair_id |-> 0]}
       /\ nextTxnId' = nextTxnId + 1
       /\ resp' = Reply("create_transaction", 200, "", <<>>)
       /\ probe' = [probe EXCEPT !.sessions[s] = NoSession]
    /\ UNCHANGED <<categories, cache>>

ConcurrentNext ==
    \/ /\ accounts = <<>>
       /\ create_account(ConcurrentAccount.name, ConcurrentAccount.balance,
                         ConcurrentAccount.account_type,
                         ConcurrentAccount.credit_limit, TRUE)
       /\ UNCHANGED probe
    \/ \E type \in ConcurrentTypes :
          /\ \A i \in CategoryIds : categories[i].type # type
          /\ create_category(<<"Food">>, type, 0, TRUE, TRUE)
          /\ UNCHANGED probe
    \/ \E s \in ConcurrentSessions, amount \in ConcurrentAmounts,
          account_id \in AccountIds, category_id \in CategoryIds :
          /\ nextTxnId + Cardinality({o \in ConcurrentSessions :
                                         InFlight(o).pc = "computed"})
                <= ConcurrentMaxTxnId
          /\ create_transaction_compute(s, amount, <<>>, account_id,
                                        category_id, 1)
    \/ \E s \in ConcurrentSessions :
          /\ create_transaction_commit(s)
          /\ Within(ConcurrentMaxTxnId, ConcurrentMaxBalance)'

SpecConcurrent == Init /\ [][ConcurrentNext]_vars

\* The sum of the signed amounts of the rows of S: -amount for a row whose
\* category is expense, +amount for one whose category is income.
RECURSIVE SignedSum(_)
SignedSum(S) ==
    IF S = {} THEN 0
    ELSE LET t == CHOOSE x \in S : TRUE
             type == RowType(t.category_id)
         IN (IF type = "expense" THEN -t.amount
             ELSE IF type = "income" THEN t.amount ELSE 0)
            + SignedSum(S \ {t})

BalanceReflectsRows ==
    \A i \in AccountIds :
       /\ accounts[i].balance =
             ConcurrentAccount.balance
                + SignedSum({t \in transactions : t.account_id = i})
       /\ accounts[i].balance >= 0

\* C21: whatever the interleaving of two concurrent create_transaction
\* requests on one account, the committed balance is the opening balance
\* plus the signed amounts of all committed rows, and no request is let
\* through that the balance including the other's effect would refuse.
C21_NoLostUpdate ==
    (\A s \in ConcurrentSessions : InFlight(s).pc = "idle")
       => BalanceReflectsRows

\* What does hold: the balance reflects every row as long as no request
\* has started while another one was between its queries and its commit.
C21_NoLostUpdateWhenSerial ==
    (/\ ~Overlapped
     /\ \A s \in ConcurrentSessions : InFlight(s).pc = "idle")
       => BalanceReflectsRows


---------------------------------------------------------------------------
(* SpecRejects: account and category calls that validation, a missing row  *)
(* or the unique constraint on the account name turn down, between reads   *)
(* that fill the cache.  Every call to the cache store reaches it.         *)

RejectMaxRows == 2

RejectAccounts ==
    {AccountBody(<<"Cash">>, 1, "cash", 0),
     AccountBody(<<"Cash">>, 1, "savings", 0),
     AccountBody(<<"USD", Arrow, "EUR">>, 0, "credit", 0),
     AccountBody(<<"USD", Arrow, "EUR">>, 0, "credit", 2)}
RejectTypes == {"expense"}

RejectsNext ==
    \/ \E a \in RejectAccounts :
          /\ CategoriesUntouched
          /\ create_account(a.name, a.balance, a.account_type,
                            a.credit_limit, TRUE)
          /\ UNCHANGED probe
    \/ \E account_id \in 1..(Len(accounts) + 1), a \in RejectAccounts :
          /\ CategoriesUntouched
          /\ update_account(account_id, a.name, a.balance, a.account_type,
                            a.credit_limit, TRUE)
          /\ UNCHANGED probe
    \/ \E type \in RejectTypes, parent_id \in 0..(Len(categories) + 1) :
          /\ AccountsUntouched
          /\ Len(categories) <= RejectMaxRows
          /\ create_category(<<"Food">>, type, parent_id, TRUE, TRUE)
          /\ Len(categories') <= RejectMaxRows
          /\ UNCHANGED probe
    \/ \E category_id \in 1..(Len(categories) + 1), name \in CacheRenames :
          /\ AccountsUntouched
          /\ update_category(category_id, name, "expense", TRUE, TRUE)
          /\ UNCHANGED probe
    \/ \E key \in CacheKeys :
          /\ Untouched(key)
          /\ Read(key, TRUE, TRUE)
          /\ UNCHANGED probe

SpecRejects == Init /\ [][RejectsNext]_vars

\* C22: a create_account whose account_type is not cash, debit or credit,
\* or whose account_type is credit with credit_limit <= 0, is answered 400,
\* adds no account row and leaves the cache as it was.
C22_InvalidAccountRejected ==
    [][\A a \in RejectAccounts :
          (/\ \/ a.account_type \notin {"cash", "debit", "credit"}
              \/ a.account_type = "credit" /\ a.credit_limit <= 0
           /\ create_account(a.name, a.balance, a.account_type,
                             a.credit_limit, TRUE))
             => /\ resp'.op = "create_account" /\ resp'.status = 400
                /\ UNCHANGED <<dbVars, cache>>]_vars

C22_Witness ==
    /\ resp.op = "create_account" /\ resp.status = 400
    /\ resp.detail = "Credit limit"
    /\ cache[CACHE_ACCOUNTS_ALL].present
    /\ Len(accounts) = 1

Mutations ==
    {"create_account", "update_account", "create_category", "update_category"}

\* C30: a step of an account or category call deletes a cache key only
\* when its commit has succeeded (it is answered 200); a call turned down
\* by validation or a missing row (400, 404), or whose commit fails (500),
\* leaves every cache key as it was, and changes no row.
C30_InvalidationAfterCommit ==
    [][resp'.op \in Mutations =>
          /\ (\E key \in CacheKeys : cache[key].present /\ ~cache'[key].present)
                => resp'.status = 200
          /\ resp'.status # 200 => UNCHANGED <<dbVars, cache>>
          /\ resp'.status = 200 =>
                \A key \in CacheKeys :
                   (IF resp'.op \in {"create_account", "update_account"}
                    THEN key = CACHE_ACCOUNTS_ALL
                    ELSE key # CACHE_ACCOUNTS_ALL)
                      => ~cache'[key].present]_vars

C30_Witness ==
    /\ resp.op = "update_category" /\ resp.status = 404
    /\ cache[CACHE_CATEGORIES_ALL].present
    /\ cache[CACHE_CATEGORIES_TREE].present
    /\ categories # <<>>


---------------------------------------------------------------------------
(* SpecProbes: the probes /health and /ready among the rate-limited        *)
(* requests of one client.  The persistent store and the cache store may   *)
(* each be out of reach when /ready is answered.                           *)

is_healthy(redisOk) == redisOk

\* readiness_check that answers 503 when the cache store does not answer.
readiness_check_NeedsCache(dbOk, redisOk) ==
    /\ UNCHANGED <<dbVars, cache>>
    /\ resp' = IF ~dbOk \/ ~is_healthy(redisOk)
               THEN Reply("readiness_check", 503, "Database unavailable", <<>>)
               ELSE Reply("readiness_check", 200, "",
                          [status |-> "ready", database |-> "connected",
                           redis |-> "connected"])

readiness_check(dbOk, redisOk) ==
    /\ UNCHANGED <<dbVars, cache>>
    /\ resp' = IF ~dbOk
               THEN Reply("readiness_check", 503, "Database unavailable", <<>>)
               ELSE Reply("readiness_check", 200, "",
                          [status |-> "ready", database |-> "connected",
                           redis |-> IF is_healthy(redisOk)
                                     THEN "connected"
                                     ELSE "unavailable (degraded mode)"])

ProbeClients == {"10.0.0.1"}
ProbePaths == {"/accounts/", "/health", "/ready"}

ProbesNext ==
    \/ \E path \in ProbePaths, client_ip \in ProbeClients,
          fail \in RateFailures :
          /\ Phase # "admitted"
          /\ path # "/accounts/" => fail = "none"
          /\ Counter(cache, RateKey(client_ip)).data < RateMaxCount
          /\ rate_limit_middleware(path, client_ip, fail)
          /\ AfterCheck(path, client_ip, fail)
    \/ \E getOk \in BOOLEAN, setOk \in BOOLEAN :
          /\ Phase = "admitted" /\ probe.path = "/accounts/"
          /\ read_accounts(getOk, setOk)
          /\ probe' = [probe EXCEPT !.phase = "served"]
    \/ /\ Phase = "admitted" /\ probe.path = "/health"
       /\ health_check
       /\ probe' = [probe EXCEPT !.phase = "served"]
    \/ \E dbOk \in BOOLEAN, redisOk \in BOOLEAN :
          /\ Phase = "admitted" /\ probe.path = "/ready"
          /\ readiness_check(dbOk, redisOk)
          /\ probe' = [probe EXCEPT !.phase = "served"]
    \/ /\ Tick
       /\ AfterTick

SpecProbes == Init /\ [][ProbesNext]_vars

\* C23: a request to /health or /ready passes the middleware whatever the
\* counter of its client holds: it is not answered 429 and no counter
\* changes; and /health is then answered 200.
C23_ProbesNeverThrottled ==
    /\ [][\A path \in {"/health", "/ready"}, client_ip \in ProbeClients :
             (/\ rate_limit_middleware(path, client_ip, "none")
              /\ AfterCheck(path, client_ip, "none"))
                => /\ probe'.phase = "admitted"
                   /\ UNCHANGED <<cache, resp>>]_vars
    /\ [](resp.op = "health_check" => resp.status = 200)
    /\ [](resp.op = "readiness_check" => resp.status # 429)
    /\ [][health_check => resp'.status = 200]_vars

C23_Witness ==
    /\ Phase = "served" /\ probe.path = "/health"
    /\ resp.op = "health_check" /\ resp.status = 200
    /\ probe.client \in Throttled
    /\ Counter(cache, RateKey(probe.client)).data > RateMax

\* C24: /ready is answered 503 exactly when the persistent store is out of
\* reach; when it is reachable the answer is 200 and the body reports
\* whether the cache store answered.
C24_ReadyFollowsStore ==
    [][\A dbOk \in BOOLEAN, redisOk \in BOOLEAN :
          readiness_check(dbOk, redisOk) =>
             /\ resp'.status = 503 <=> ~dbOk
             /\ dbOk =>
                   /\ resp'.status = 200
                   /\ resp'.body.status = "ready"
                   /\ resp'.body.redis = "connected" <=> redisOk]_vars

C24_Witness ==
    /\ resp.op = "readiness_check" /\ resp.status = 200
    /\ resp.body.redis = "unavailable (degraded mode)"


---------------------------------------------------------------------------
(* SpecCategories again: the stored type of subcategories.                 *)

---------------------------------------------------------------------------
(* SpecTransfer again: the shape of the rows.                              *)

RowWellFormed(t) ==
    \/ /\ ~t.is_transfer
       /\ t.category_id \in CategoryIds
    \/ /\ t.is_transfer
       /\ t.category_id = 0
       /\ t.transfer_pair_id # 0

\* C26: in every reachable state each transaction row either is not
\* transfer-flagged and references an existing category, or is
\* transfer-flagged with no category and a pair reference; no update gives
\* a category to a transfer leg.
C26_RowsWellFormed ==
    \A t \in transactions : RowWellFormed(t)

\* What does hold: every step other than an update_transaction of a
\* transfer leg keeps the rows well formed.
C26_WellFormedButForLegUpdates ==
    [][(/\ \A t \in transactions : RowWellFormed(t)
        /\ ~(/\ resp'.op = "update_transaction"
             /\ \E t \in transactions :
                   t.is_transfer /\ t \notin transactions'))
          => \A t \in transactions' : RowWellFormed(t)]_vars


---------------------------------------------------------------------------
(* SpecAmounts: requests whose amount is zero or negative, which the       *)
(* schemas (amount: float) let through.                                    *)

AmountsMaxTxnId == 3
AmountsMaxBalance == 4

AmountsAccount == AccountBody(<<"Cash">>, 1, "cash", 0)
AmountsTypes == {"expense", "income"}
AnyAmounts == {-1, 0, 1}

AmountsStep ==
    /\ Within(AmountsMaxTxnId, AmountsMaxBalance)'
    /\ UNCHANGED probe

AmountsNext ==
    \/ /\ accounts = <<>>
       /\ create_account(AmountsAccount.name, AmountsAccount.balance,
                         AmountsAccount.account_type,
                         AmountsAccount.credit_limit, TRUE)
       /\ AmountsStep
    \/ \E type \in AmountsTypes :
          /\ categories = <<>>
          /\ create_category(<<"Food">>, type, 0, TRUE, TRUE)
          /\ AmountsStep
    \/ \E amount \in AnyAmounts, account_id \in AccountIds,
          category_id \in CategoryIds :
          /\ create_transaction(amount, <<>>, account_id, category_id, 1)
          /\ AmountsStep
    \/ \E transaction_id \in TxnIds, amount \in AnyAmounts :
          /\ update_transaction(transaction_id,
                                [NoUpdate EXCEPT !.amount = Some(amount)])
          /\ AmountsStep
    \/ \E from_account_id \in AccountIds, to_account_id \in AccountIds,
          amount \in AnyAmounts :
          /\ make_transfer(from_account_id, to_account_id, amount, 1, "none")
          /\ AmountsStep

SpecAmounts == Init /\ [][AmountsNext]_vars

\* C27: every transaction row has amount > 0, and a request that carries a
\* zero or negative amount is not answered 200: it adds or changes no row
\* and no balance.
C27_AmountsPositive ==
    \A t \in transactions : t.amount > 0

\* What does hold: a request with a positive amount leaves no row with a
\* zero or negative amount behind when there was none before.
C27_PositiveRequestsKeepAmountsPositive ==
    [][(/\ \A t \in transactions : t.amount > 0
        /\ \A t \in transactions' \ transactions : t.amount > 0)
          => \A t \in transactions' : t.amount > 0]_vars



---------------------------------------------------------------------------
(* SpecInverse: one non-transfer transaction is created, category types    *)
(* are then edited, and the transaction is deleted.  probe records the     *)
(* transaction, its account, the change delta its creation made to the     *)
(* balance and the change undo its deletion made.                          *)

InverseMaxTxnId == 2
InverseMaxBalance == 4

InverseAccount == AccountBody(<<"Cash">>, 2, "cash", 0)
InverseTypes == {"expense", "income"}
InverseCategories ==
    {[name |-> <<"Food">>, type |-> t, parent_id |-> 0] :
        t \in InverseTypes}
      \cup {[name |-> <<"Lunch">>, type |-> None, parent_id |-> 1]}
InverseAmounts == {1, 2}

InverseFill ==
    /\ Within(InverseMaxTxnId, InverseMaxBalance)'
    /\ UNCHANGED probe

InverseNext ==
    \/ /\ accounts = <<>>
       /\ create_account(InverseAccount.name, InverseAccount.balance,
                         InverseAccount.account_type,
                         InverseAccount.credit_limit, TRUE)
       /\ InverseFill
    \/ \E c \in InverseCategories :
          /\ Len(categories) < 2
          /\ create_category(c.name, c.type, c.parent_id, TRUE, TRUE)
          /\ InverseFill
    \/ \E category_id \in CategoryIds, type \in InverseTypes :
          /\ update_category(category_id, categories[category_id].name,
                             type, TRUE, TRUE)
          /\ InverseFill
    \/ \E amount \in InverseAmounts, account_id \in AccountIds,
          category_id \in CategoryIds :
          /\ probe.phase = "idle"
          /\ create_transaction(amount, <<>>, account_id, category_id, 1)
          /\ Within(InverseMaxTxnId, InverseMaxBalance)'
          /\ probe' = IF resp'.status = 200
                      THEN [phase |-> "created", txn |-> nextTxnId,
                            account |-> account_id,
                            delta |-> accounts'[account_id].balance
                                         - accounts[account_id].balance,
                            undo |-> 0]
                      ELSE probe
    \/ /\ probe.phase = "created"
       /\ delete_transaction(probe.txn)
       /\ probe' = [probe EXCEPT
                       !.phase = "deleted",
                       !.undo = accounts'[probe.account].balance
                                   - accounts[probe.account].balance]

SpecInverse == Init /\ [][InverseNext]_vars

\* C28: the deletion of a non-transfer transaction changes its account's
\* balance by exactly the inverse of the change its creation made, whatever
\* category types were edited in between.
C28_DeleteInvertsCreate ==
    probe.phase = "deleted" => probe.undo = 0 - probe.delta

\* What does hold: the deletion inverts the creation when the effective
\* type of the transaction's category is at the deletion what it was at
\* the creation; every deletion changes the balance by the amount, up or
\* down.
C28_DeleteInvertsCreateWhenTypeKept ==
    [][\A t \in transactions :
          (/\ probe.phase = "created"
           /\ t.id = probe.txn
           /\ delete_transaction(probe.txn)
           /\ probe'.phase = "deleted")
             => /\ probe'.undo \in {t.amount, 0 - t.amount}
                /\ (get_category_type(categories[t.category_id]) = "expense")
                      = (probe.delta < 0)
                      => probe'.undo = 0 - probe.delta]_vars



\* The change a transaction of amount under a category of effective type
\* cat_type makes to its account's balance.
SignedEffect(cat_type, amount) ==
    IF cat_type = "expense" THEN 0 - amount
    ELSE IF cat_type = "income" THEN amount
    ELSE 0

\* C29: an update_transaction answered 200 takes the old signed effect off
\* the original account and puts the new signed amount on the target
\* account, which passes the limit check when the new type is expense; when
\* the account changes the original account ends at its balance without
\* the transaction and the target carries the whole new effect; the row
\* takes the fields of the patch and keeps every other field.
C29_UpdateMovesEffect ==
    [][\A transaction_id \in TxnIds, update \in RefusalUpdates :
          (update_transaction(transaction_id, update) /\ resp'.status = 200)
             => LET old == Txn(transaction_id)
                    to_account == IF update.account_id = <<>>
                                  THEN old.account_id
                                  ELSE update.account_id[1]
                    to_category == IF update.category_id = <<>>
                                   THEN old.category_id
                                   ELSE update.category_id[1]
                    to_amount == IF update.amount = <<>>
                                 THEN old.amount ELSE update.amount[1]
                    old_effect ==
                        SignedEffect(get_category_type(
                                        categories[old.category_id]),
                                     old.amount)
                    new_type == get_category_type(categories[to_category])
                    new_effect == SignedEffect(new_type, to_amount)
                    without == AddBalance(accounts, old.account_id,
                                          0 - old_effect)
                    row == [old EXCEPT !.account_id = to_account,
                                       !.category_id = to_category,
                                       !.amount = to_amount]
                IN /\ to_account \in AccountIds
                   /\ to_category \in CategoryIds
                   /\ accounts' = AddBalance(without, to_account, new_effect)
                   /\ to_account # old.account_id =>
                         /\ accounts'[old.account_id].balance
                               = accounts[old.account_id].balance - old_effect
                         /\ accounts'[to_account].balance
                               = accounts[to_account].balance + new_effect
                   /\ new_type = "expense" =>
                         IF without[to_account].account_type = "credit"
                         THEN Abs(without[to_account].balance + new_effect)
                                 <= without[to_account].credit_limit
                         ELSE without[to_account].balance + new_effect >= 0
                   /\ transactions' = (transactions \ {old}) \cup {row}
      ]_vars

C29_Witness ==
    /\ resp.op = "update_transaction" /\ resp.status = 200
    /\ Len(accounts) = 2
    /\ accounts[1] = AccountBody(<<"Cash">>, 1, "cash", 0)
    /\ accounts[2].balance = -1
    /\ \E t \in transactions : t.account_id = 2 /\ t.amount = 1



---------------------------------------------------------------------------
(* SpecRateRace: concurrent rate-limit checks of one client.  Each check   *)
(* is the pipelined round trip (incr and ttl, atomic in the store) and,    *)
(* when the ttl it read is -1, a second round trip for expire; seconds go  *)
(* by between any two round trips.  probe holds for each request its       *)
(* position and the ttl and count it read, the seconds elapsed since the   *)
(* first expire of the counter's window (-1 before it), and whether a      *)
(* pipeline has run while another request was between its two round trips. *)

RaceSessions == {"r1", "r2", "r3"}
RaceClient == "10.0.0.1"

NoCheck == [pc |-> "idle", current |-> 0]

Racing(s) == IF "race" \in DOMAIN probe THEN probe.race[s] ELSE NoCheck

Elapsed == IF "race" \in DOMAIN probe THEN probe.elapsed ELSE -1

RaceOverlapped == IF "race" \in DOMAIN probe THEN probe.overlapped ELSE FALSE

RaceProbe(race, elapsed, overlapped) ==
    [phase |-> "race", race |-> race, elapsed |-> elapsed,
     overlapped |-> overlapped]

\* What the middleware answers once the check of a request has returned.
RateAnswer(current_count) ==
    IF RateAllowed(current_count, RateMax)
    THEN UNCHANGED resp
    ELSE resp' = Reply("rate_limit_middleware", 429,
                       "Too many requests. Try again later.",
                       [limit |-> RateMax, remaining |-> 0,
                        retry_after |-> 60])

\* pipe.execute() of request s: incr and ttl in one round trip.
check_rate_limit_pipeline(s, client_ip) ==
    LET key == RateKey(client_ip)
        piped == incr(cache, key)
        current_count == piped[key].data
        current_ttl == ttl(piped, key)
    IN /\ Racing(s).pc = "idle"
       /\ cache' = piped
       /\ UNCHANGED dbVars
       /\ IF FirstInWindow(current_ttl)
          THEN /\ UNCHANGED resp
               /\ probe' = RaceProbe(
                     [o \in RaceSessions |->
                         IF o = s THEN [pc |-> "piped",
                                        current |-> current_count]
                         ELSE Racing(o)],
                     Elapsed,
                     \/ RaceOverlapped
                     \/ \E o \in RaceSessions \ {s} : Racing(o).pc = "piped")
          ELSE /\ RateAnswer(current_count)
               /\ probe' = RaceProbe([o \in RaceSessions |-> Racing(o)],
                                     Elapsed, RaceOverlapped)

\* r.expire(key, window_seconds) of request s, whose pipeline read ttl -1.
check_rate_limit_expire(s, client_ip, window_seconds) ==
    LET key == RateKey(client_ip) IN
    /\ Racing(s).pc = "piped"
    /\ cache' = expire(cache, key, window_seconds)
    /\ UNCHANGED dbVars
    /\ RateAnswer(Racing(s).current)
    /\ probe' = RaceProbe([o \in RaceSessions |->
                              IF o = s THEN NoCheck ELSE Racing(o)],
                          IF ~Counter(cache, key).present THEN -1
                          ELSE IF Elapsed < 0 THEN 0 ELSE Elapsed,
                          RaceOverlapped)

RaceTick ==
    /\ Tick
    /\ probe' = RaceProbe([o \in RaceSessions |-> Racing(o)],
                          IF Counter(cache', RateKey(RaceClient)).present
                          THEN Elapsed + 1 ELSE -1,
                          RaceOverlapped
                             /\ Counter(cache', RateKey(RaceClient)).present)

RaceNext ==
    \/ \E s \in RaceSessions :
          /\ Counter(cache, RateKey(RaceClient)).data < RateMaxCount
          /\ check_rate_limit_pipeline(s, RaceClient)
    \/ \E s \in RaceSessions :
          check_rate_limit_expire(s, RaceClient, RateWindow)
    \/ RaceTick

SpecRateRace == Init /\ [][RaceNext]_vars

\* C31: whatever the interleaving of the concurrent checks of a client, the
\* expiry of a window is not moved to a later instant once it is set: the
\* counter has at most RateWindow seconds to live counted from the first
\* expire of its window.
C31_ExpirySetOnce ==
    LET c == Counter(cache, RateKey(RaceClient)) IN
    (c.present /\ Elapsed >= 0) => c.ttl + Elapsed <= RateWindow

\* What does hold: the expiry stays where the first expire put it in every
\* window in which no pipeline has run while another request was between
\* its pipeline and its expire.
C31_ExpirySetOnceWhenSerial ==
    LET c == Counter(cache, RateKey(RaceClient)) IN
    (c.present /\ Elapsed >= 0 /\ ~RaceOverlapped)
       => c.ttl + Elapsed = RateWindow



---------------------------------------------------------------------------
(* SpecCacheRace: one GET /categories/ and one POST /categories/ run       *)
(* concurrently, the cache being reachable.  The read is three steps       *)
(* (cache get, store load, cache set) and the creation two (commit, cache  *)
(* delete).  probe holds the position of each request, the list the read   *)
(* has loaded, and whether a commit has run between the load and the set   *)
(* of a read (crossed).                                                    *)

RaceMaxRows == 3

RaceTypes == {"expense", "income"}

Reader == IF "reader" \in DOMAIN probe THEN probe.reader
          ELSE [pc |-> "idle", loaded |-> <<>>]

Writer == IF "writer" \in DOMAIN probe THEN probe.writer ELSE "idle"

Crossed == IF "crossed" \in DOMAIN probe THEN probe.crossed ELSE FALSE

CacheRaceProbe(reader, writer, crossed) ==
    [phase |-> "cache race", reader |-> reader, writer |-> writer,
     crossed |-> crossed]

\* read_categories: redis_client.cache_get(CACHE_CATEGORIES_ALL).
read_categories_get ==
    /\ Reader.pc = "idle"
    /\ UNCHANGED <<dbVars, cache>>
    /\ LET cached == cache_get(cache, CACHE_CATEGORIES_ALL, TRUE) IN
       IF cached.present
       THEN /\ resp' = Reply("read_categories", 200, "hit", cached.data)
            /\ probe' = CacheRaceProbe(Reader, Writer, Crossed)
       ELSE /\ UNCHANGED resp
            /\ probe' = CacheRaceProbe([pc |-> "missed", loaded |-> <<>>],
                                       Writer, Crossed)

\* read_categories: db.query(database.Category).all() and model_dump.
read_categories_load ==
    /\ Reader.pc = "missed"
    /\ UNCHANGED <<dbVars, cache, resp>>
    /\ probe' = CacheRaceProbe([pc |-> "loaded",
                                loaded |-> CategoriesOut(categories)],
                               Writer, Crossed)

\* read_categories: redis_client.cache_set and the return.
read_categories_set ==
    /\ Reader.pc = "loaded"
    /\ UNCHANGED dbVars
    /\ cache' = cache_set(cache, CACHE_CATEGORIES_ALL, Reader.loaded, TRUE)
    /\ resp' = Reply("read_categories", 200, "miss", Reader.loaded)
    /\ probe' = CacheRaceProbe([pc |-> "idle", loaded |-> <<>>],
                               Writer, Crossed)

\* create_category of a root category up to db.commit().
create_category_commit(name, type) ==
    /\ Writer = "idle"
    /\ categories' = Append(categories,
                            [name |-> name, type |-> type, parent_id |-> 0])
    /\ UNCHANGED <<accounts, transactions, nextTxnId, cache, resp>>
    /\ probe' = CacheRaceProbe(Reader, "committed",
                               Crossed \/ Reader.pc = "loaded")

\* create_category: invalidate_categories_cache() and the return.
create_category_invalidate ==
    /\ Writer = "committed"
    /\ UNCHANGED dbVars
    /\ cache' = invalidate_categories_cache(cache, TRUE, TRUE)
    /\ resp' = Reply("create_category", 200, "", <<>>)
    /\ probe' = CacheRaceProbe(Reader, "idle", Crossed)

CacheRaceNext ==
    \/ read_categories_get
    \/ read_categories_load
    \/ read_categories_set
    \/ \E type \in RaceTypes :
          /\ Len(categories) < RaceMaxRows
          /\ create_category_commit(<<"Food">>, type)
    \/ create_category_invalidate

SpecCacheRace == Init /\ [][CacheRaceNext]_vars

CategoriesEntryFresh ==
    \/ ~cache[CACHE_CATEGORIES_ALL].present
    \/ json_loads(cache[CACHE_CATEGORIES_ALL].data) = CategoriesOut(categories)

\* C32: whatever the interleaving of a list read with a concurrent
\* creation, once both requests have completed the cache key is absent or
\* holds the store's current list.
C32_NoStaleEntryAfterRace ==
    (Reader.pc = "idle" /\ Writer = "idle") => CategoriesEntryFresh

\* What does hold: the entry is absent or current once both requests have
\* completed, as long as no commit has run between the load and the set of
\* a read.
C32_NoStaleEntryWhenNotCrossed ==
    (Reader.pc = "idle" /\ Writer = "idle" /\ ~Crossed)
       => CategoriesEntryFresh



---------------------------------------------------------------------------
(* SpecLifecycle: transactions and transfers are created, edited and       *)
(* deleted, and the edit and delete requests name any identifier, among    *)
(* them identifiers never given out and identifiers of deleted rows.       *)
(* probe holds the identifier the last edit or delete request named.       *)

LifeMaxTxnId == 3
LifeMaxBalance == 3

LifeAccount == AccountBody(<<"Cash">>, 2, "cash", 0)
LifeTypes == {"expense", "income"}
LifeAmounts == {1, 2}
LifeIds == 1..(LifeMaxTxnId + 1)

LifeStep(id) ==
    /\ Within(LifeMaxTxnId, LifeMaxBalance)'
    /\ probe' = [phase |-> "life", id |-> id]

Named == IF "id" \in DOMAIN probe THEN probe.id ELSE 0

\* The identifiers given out so far whose rows are gone.
Deleted == (1..(nextTxnId - 1)) \ TxnIds

LifecycleNext ==
    \/ /\ accounts = <<>>
       /\ create_account(LifeAccount.name, LifeAccount.balance,
                         LifeAccount.account_type, LifeAccount.credit_limit,
                         TRUE)
       /\ LifeStep(0)
    \/ \E type \in LifeTypes :
          /\ categories = <<>>
          /\ create_category(<<"Food">>, type, 0, TRUE, TRUE)
          /\ LifeStep(0)
    \/ \E amount \in LifeAmounts, account_id \in AccountIds,
          category_id \in CategoryIds :
          /\ create_transaction(amount, <<>>, account_id, category_id, 1)
          /\ LifeStep(0)
    \/ \E account_id \in AccountIds :
          /\ make_transfer(account_id, account_id, 1, 1, "none")
          /\ LifeStep(0)
    \/ \E transaction_id \in LifeIds, amount \in LifeAmounts :
          /\ update_transaction(transaction_id,
                                [NoUpdate EXCEPT !.amount = Some(amount)])
          /\ LifeStep(transaction_id)
    \/ \E transaction_id \in LifeIds :
          /\ delete_transaction(transaction_id)
          /\ LifeStep(transaction_id)

SpecLifecycle == Init /\ [][LifecycleNext]_vars

\* C33: an update or a delete that names an identifier never given out or
\* the identifier of a deleted row is answered 404 and changes no balance
\* and no row; a deleted identifier never has a row again, and every new
\* row takes an identifier not given out before.
C33_DeletedIsFinal ==
    /\ [][\A transaction_id \in LifeIds \ TxnIds :
             /\ \A amount \in LifeAmounts :
                   (/\ update_transaction(transaction_id,
                          [NoUpdate EXCEPT !.amount = Some(amount)])
                    /\ LifeStep(transaction_id))
                      => /\ resp'.status = 404
                         /\ UNCHANGED <<accounts, transactions>>
             /\ (delete_transaction(transaction_id)
                    /\ LifeStep(transaction_id))
                   => /\ resp'.status = 404
                      /\ UNCHANGED <<accounts, transactions>>]_vars
    /\ [][/\ Deleted \subseteq Deleted'
          /\ \A t \in transactions' :
                t.id \in TxnIds \/ t.id >= nextTxnId]_vars

C33_Witness ==
    /\ resp.op = "delete_transaction" /\ resp.status = 404
    /\ Named \in Deleted
    /\ transactions # {}



---------------------------------------------------------------------------
(* SpecEquation: accounts are created with the opening balance of their    *)
(* name and never edited, category types never change; transactions are    *)
(* created, edited (non-transfer rows only) and deleted, transfers are     *)
(* created and deleted through either leg.                                 *)

EquationMaxTxnId == 2
EquationMaxBalance == 4

EquationAccounts ==
    {AccountBody(<<"Cash">>, 2, "cash", 0),
     AccountBody(<<"USD", Arrow, "EUR">>, 0, "credit", 2)}
EquationTypes == {"expense", "income"}
EquationAmounts == {1, 2}

Opening(name) == (CHOOSE a \in EquationAccounts : a.name = name).balance

EquationStep ==
    /\ Within(EquationMaxTxnId, EquationMaxBalance)'
    /\ UNCHANGED probe

EquationNext ==
    \/ \E a \in EquationAccounts :
          /\ create_account(a.name, a.balance, a.account_type,
                            a.credit_limit, TRUE)
          /\ resp'.status = 200
          /\ EquationStep
    \/ \E type \in EquationTypes :
          /\ \A i \in CategoryIds : categories[i].type # type
          /\ create_category(<<"Food">>, type, 0, TRUE, TRUE)
          /\ EquationStep
    \/ \E amount \in EquationAmounts, account_id \in AccountIds,
          category_id \in CategoryIds :
          /\ create_transaction(amount, <<>>, account_id, category_id, 1)
          /\ EquationStep
    \/ \E transaction_id \in TxnIds, amount \in EquationAmounts :
          /\ ~Txn(transaction_id).is_transfer
          /\ update_transaction(transaction_id,
                                [NoUpdate EXCEPT !.amount = Some(amount)])
          /\ EquationStep
    \/ \E transaction_id \in TxnIds :
          /\ delete_transaction(transaction_id)
          /\ EquationStep
    \/ \E from_account_id \in AccountIds, to_account_id \in AccountIds,
          amount \in EquationAmounts :
          /\ make_transfer(from_account_id, to_account_id, amount, 1, "none")
          /\ EquationStep

SpecEquation == Init /\ [][EquationNext]_vars

\* The amount row t adds to the balance of its account: a transfer's first
\* row is the outgoing leg and its second row the incoming one.
RowEffect(t) ==
    IF t.is_transfer
    THEN IF t.id < t.transfer_pair_id THEN 0 - t.amount ELSE t.amount
    ELSE SignedEffect(RowType(t.category_id), t.amount)

RECURSIVE RowsEffect(_)
RowsEffect(S) ==
    IF S = {} THEN 0
    ELSE LET t == CHOOSE x \in S : TRUE
         IN RowEffect(t) + RowsEffect(S \ {t})

LedgerEquation ==
    \A i \in AccountIds :
       accounts[i].balance =
          Opening(accounts[i].name)
             + RowsEffect({t \in transactions : t.account_id = i})

\* C34: in every reachable state each account's balance is its opening
\* balance plus the amounts of its income rows and incoming transfer legs
\* minus the amounts of its expense rows and outgoing transfer legs.
C34_LedgerEquation == LedgerEquation

\* What does hold: the equation holds in every state in which no account's
\* name holds the outgoing marker.
C34_LedgerEquationWithoutArrowNames ==
    (\A i \in AccountIds : ~Contains(accounts[i].name, Arrow))
       => LedgerEquation



---------------------------------------------------------------------------
(* SpecConserve: three accounts, transfers between any two of them or from *)
(* an account to itself, with an exception raised after any step, and the  *)
(* deletion of transfers through either leg.                               *)

ConserveMaxTxnId == 4
ConserveMaxBalance == 4

ConserveAccounts ==
    <<AccountBody(<<"USD", Arrow, "EUR">>, 0, "credit", 2),
      AccountBody(<<"Cash">>, 2, "cash", 0),
      AccountBody(<<"Bank">>, 1, "debit", 0)>>
ConserveAmounts == {1, 2}

ConserveStep ==
    /\ Within(ConserveMaxTxnId, ConserveMaxBalance)'
    /\ UNCHANGED probe

ConserveNext ==
    \/ /\ Len(accounts) < Len(ConserveAccounts)
       /\ LET a == ConserveAccounts[Len(accounts) + 1] IN
          create_account(a.name, a.balance, a.account_type, a.credit_limit,
                         TRUE)
       /\ ConserveStep
    \/ \E from_account_id \in AccountIds, to_account_id \in AccountIds,
          amount \in ConserveAmounts, fail \in TransferFailures :
          /\ make_transfer(from_account_id, to_account_id, amount, 1, fail)
          /\ ConserveStep
    \/ \E transaction_id \in TxnIds :
          /\ delete_transaction(transaction_id)
          /\ ConserveStep

SpecConserve == Init /\ [][ConserveNext]_vars

RECURSIVE TotalBalance(_, _)
TotalBalance(accs, n) ==
    IF n = 0 THEN 0 ELSE accs[n].balance + TotalBalance(accs, n - 1)

\* C35: a transfer, and the deletion of a transfer through either of its
\* legs, leave the sum of all balances as it was and change no account
\* other than the two of the transfer, also when the two are one account.
C35_TransfersConserve ==
    /\ [][\A from_account_id \in AccountIds, to_account_id \in AccountIds,
             amount \in ConserveAmounts, fail \in TransferFailures :
             make_transfer(from_account_id, to_account_id, amount, 1, fail)
                => /\ TotalBalance(accounts', Len(accounts'))
                         = TotalBalance(accounts, Len(accounts))
                   /\ \A i \in AccountIds \ {from_account_id, to_account_id} :
                         accounts'[i] = accounts[i]]_vars
    /\ [][\A t \in transactions :
             (t.is_transfer /\ delete_transaction(t.id))
                => /\ TotalBalance(accounts', Len(accounts'))
                         = TotalBalance(accounts, Len(accounts))
                   /\ \A i \in AccountIds :
                         (\A leg \in transactions :
                             leg.id \in {t.id, t.transfer_pair_id}
                                => leg.account_id # i)
                            => accounts'[i] = accounts[i]]_vars

C35_Witness ==
    /\ resp.op = "delete_transaction" /\ resp.status = 200
    /\ Len(accounts) = 3
    /\ transactions = {}
    /\ accounts[1].balance = -2
    /\ accounts[3].balance = 3



---------------------------------------------------------------------------
(* SpecBodies: POST /transactions/ with every field of TransactionCreate   *)
(* in the body, is_transfer and transfer_pair_id included, next to         *)
(* transfers.  probe holds the body of the last POST /transactions/.       *)

BodyMaxTxnId == 3
BodyMaxBalance == 4

\* create_transaction building the row from the whole body.
create_transaction_request_CopiesFlags(transaction) ==
    /\ UNCHANGED <<categories, cache>>
    /\ IF transaction.account_id \notin AccountIds
          \/ transaction.category_id \notin CategoryIds
       THEN /\ resp' = Reply("create_transaction", 404,
                             "Account or Category not found", <<>>)
            /\ UNCHANGED <<accounts, transactions, nextTxnId>>
       ELSE /\ accounts' = AddBalance(accounts, transaction.account_id,
                              SignedEffect(get_category_type(
                                  categories[transaction.category_id]),
                                  transaction.amount))
            /\ transactions' = transactions \cup
                  {[id |-> nextTxnId, amount |-> transaction.amount,
                    description |-> transaction.description,
                    created_at |-> transaction.created_at,
                    account_id |-> transaction.account_id,
                    category_id |-> transaction.category_id,
                    is_transfer |-> transaction.is_transfer,
                    transfer_pair_id |-> transaction.transfer_pair_id]}
            /\ nextTxnId' = nextTxnId + 1
            /\ resp' = Reply("create_transaction", 200, "", <<>>)

\* create_transaction as the route receives it: the handler reads amount,
\* description, account_id, category_id and created_at of the body and
\* nothing else.
create_transaction_request(transaction) ==
    create_transaction(transaction.amount, transaction.description,
                       transaction.account_id, transaction.category_id,
                       transaction.created_at)

BodyAccount == AccountBody(<<"Cash">>, 2, "cash", 0)
BodyTypes == {"expense", "income"}
Bodies ==
    [amount : {1}, description : {<<>>}, account_id : {1},
     category_id : {1}, created_at : {1},
     is_transfer : BOOLEAN, transfer_pair_id : 0..2]

BodyStep ==
    /\ Within(BodyMaxTxnId, BodyMaxBalance)'
    /\ UNCHANGED probe

BodiesNext ==
    \/ /\ accounts = <<>>
       /\ create_account(BodyAccount.name, BodyAccount.balance,
                         BodyAccount.account_type, BodyAccount.credit_limit,
                         TRUE)
       /\ BodyStep
    \/ \E type \in BodyTypes :
          /\ categories = <<>>
          /\ create_category(<<"Food">>, type, 0, TRUE, TRUE)
          /\ BodyStep
    \/ \E transaction \in Bodies :
          /\ create_transaction_request(transaction)
          /\ Within(BodyMaxTxnId, BodyMaxBalance)'
          /\ probe' = [phase |-> "body", body |-> transaction]
    \/ \E account_id \in AccountIds :
          /\ make_transfer(account_id, account_id, 1, 1, "none")
          /\ BodyStep
    \/ \E transaction_id \in TxnIds :
          /\ delete_transaction(transaction_id)
          /\ BodyStep

SpecBodies == Init /\ [][BodiesNext]_vars

\* C36: the row a POST /transactions/ adds is not transfer-flagged and has
\* no pair reference whatever is_transfer and transfer_pair_id its body
\* carries, and every transfer-flagged row is added by a transfer.
C36_OnlyTransfersFlagRows ==
    [][\A t \in transactions' \ transactions :
          /\ resp'.op = "create_transaction"
                => ~t.is_transfer /\ t.transfer_pair_id = 0
          /\ t.is_transfer => resp'.op = "make_transfer"]_vars

C36_Witness ==
    /\ resp.op = "create_transaction" /\ resp.status = 200
    /\ "body" \in DOMAIN probe
    /\ probe.body.is_transfer /\ probe.body.transfer_pair_id = 1
    /\ \E t \in transactions :
          /\ t.id = nextTxnId - 1
          /\ ~t.is_transfer /\ t.transfer_pair_id = 0
    /\ \E t \in transactions : t.is_transfer



\* C37: a request the rate limiter denies is answered 429 and goes no
\* further: the step changes no account, category or transaction, no list
\* key of the cache and no other client's counter; it adds one to the
\* client's counter, whose expiry stays as it is or, when it had none, is
\* set to the window; and no handler runs for the request afterwards.
C37_DeniedOnlyCounts ==
    /\ [][\A path \in RatePaths, client_ip \in RateClients,
             fail \in RateFailures :
             (/\ rate_limit_middleware(path, client_ip, fail)
              /\ AfterCheck(path, client_ip, fail)
              /\ probe'.phase = "denied")
                => LET before == Counter(cache, RateKey(client_ip))
                       after == Counter(cache', RateKey(client_ip))
                   IN /\ resp'.status = 429
                      /\ UNCHANGED dbVars
                      /\ \A key \in CacheKeys : cache'[key] = cache[key]
                      /\ \A other \in RateClients \ {client_ip} :
                            Counter(cache', RateKey(other))
                               = Counter(cache, RateKey(other))
                      /\ after.data = before.data + 1
                      /\ \/ after.ttl = before.ttl
                         \/ before.ttl = -1 /\ after.ttl = RateWindow]_vars
    /\ [][Phase = "denied" => resp'.op = "rate_limit_middleware"]_vars

C37_Witness ==
    /\ Phase = "denied"
    /\ resp.status = 429
    /\ Counter(cache, RateKey(probe.client)).data = RateMax + 2
    /\ cache[CACHE_ACCOUNTS_ALL].present

===========================================================================
